---- MODULE Spec2Model ----
(***************************************************************************)
(* A model of crypto-vault: the container codec (packContainer /           *)
(* unpackContainer), the Base64URL and UTF-8 helpers, the compression      *)
(* adapter and the encryption engine (encryptString, decryptToString,      *)
(* encryptBlob, decryptToBlob).                                            *)
(*                                                                         *)
(* Bytes are integers 0..255, a Uint8Array is a sequence of bytes, a       *)
(* JavaScript string is a sequence of UTF-16 code units.  Offsets are      *)
(* 0-based as in the source; sequences are 1-based, so the byte at offset  *)
(* o of u8 is u8[o + 1].                                                   *)
(***************************************************************************)
EXTENDS Integers, Sequences, FiniteSets, TLC

\* ------------------------------------------------------------------------
\* Program constants (constants.ts)
\* ------------------------------------------------------------------------
MAGIC == <<87, 67, 86, 49>>                        \* "WCV1"
VERSION == 1
ALG == <<65, 69, 83, 45, 71, 67, 77>>              \* "AES-GCM"
IV_BYTES == 12
ALG_ID == 1                                        \* 0x01, AES-GCM-256
\* Length of the authentication tag AES-GCM appends (WebCrypto's default
\* tagLength of 128 bits; the source passes no tagLength).
TAG_BYTES == 16
DEFAULT_MIME == <<97, 112, 112, 108, 105, 99, 97, 116, 105, 111, 110, 47,
                  111, 99, 116, 101, 116, 45, 115, 116, 114, 101, 97, 109>>
                                                   \* "application/octet-stream"

\* ------------------------------------------------------------------------
\* Small helpers
\* ------------------------------------------------------------------------
Min(a, b) == IF a < b THEN a ELSE b
Max(a, b) == IF a > b THEN a ELSE b

\* Uint8Array.prototype.subarray(start, end) / String.prototype.slice for
\* non-negative arguments: both ends are clamped to the array.
subarray(u8, start, end) ==
    LET s == Min(Max(start, 0), Len(u8))
        e == Min(Max(end, s), Len(u8))
    IN  SubSeq(u8, s + 1, e)

\* u8[i] of a typed array in an integer context: an index past the end reads
\* undefined, which the bit operators turn into 0.
byteAt(u8, i) == IF i >= 0 /\ i < Len(u8) THEN u8[i + 1] ELSE 0

\* ------------------------------------------------------------------------
\* binary.ts
\* ------------------------------------------------------------------------
concatU8(parts) ==
    LET RECURSIVE cat(_)
        cat(k) == IF k > Len(parts) THEN <<>> ELSE parts[k] \o cat(k + 1)
    IN  cat(1)

\* n is a length here, 0 <= n < 2^31, so n >>> k is n \div 2^k.
u32be(n) ==
    << (n \div 16777216) % 256, (n \div 65536) % 256,
       (n \div 256) % 256, n % 256 >>

\* A readU32be that reads the lowest byte only.
readU32beLowByte(u8, offset) == byteAt(u8, offset + 3)

\* The value is exact below 2^30; every larger value is represented by 2^30
\* (TLC's integers are 32 bits wide and every buffer of the model is
\* far shorter, so each comparison the program makes has the same outcome).
readU32be(u8, offset) ==
    IF byteAt(u8, offset) >= 64
    THEN 1073741824
    ELSE byteAt(u8, offset) * 16777216 + byteAt(u8, offset + 1) * 65536
         + byteAt(u8, offset + 2) * 256 + byteAt(u8, offset + 3)

\* ------------------------------------------------------------------------
\* base64.ts
\* ------------------------------------------------------------------------
\* The standard Base64 alphabet: index 0..63 -> character code.
B64Char(i) ==
    IF i < 26 THEN 65 + i
    ELSE IF i < 52 THEN 71 + i
    ELSE IF i < 62 THEN i - 4
    ELSE IF i = 62 THEN 43 ELSE 47

IsB64Char(c) ==
    \/ c >= 65 /\ c <= 90
    \/ c >= 97 /\ c <= 122
    \/ c >= 48 /\ c <= 57
    \/ c = 43
    \/ c = 47

B64Val(c) ==
    IF c >= 65 /\ c <= 90 THEN c - 65
    ELSE IF c >= 97 /\ c <= 122 THEN c - 71
    ELSE IF c >= 48 /\ c <= 57 THEN c + 4
    ELSE IF c = 43 THEN 62 ELSE 63

\* btoa(binary): standard Base64 with '=' (61) padding.
btoa(bin) ==
    LET n == Len(bin)
        ch(j) ==
            LET g  == (j - 1) \div 4
                r  == (j - 1) % 4
                b0 == byteAt(bin, 3 * g)
                b1 == byteAt(bin, 3 * g + 1)
                b2 == byteAt(bin, 3 * g + 2)
            IN  IF r = 0 THEN B64Char(b0 \div 4)
                ELSE IF r = 1 THEN B64Char((b0 % 4) * 16 + (b1 \div 16))
                ELSE IF r = 2
                     THEN IF 3 * g + 1 >= n THEN 61
                          ELSE B64Char((b1 % 16) * 4 + (b2 \div 64))
                ELSE IF 3 * g + 2 >= n THEN 61 ELSE B64Char(b2 % 64)
    IN  [j \in 1..(4 * ((n + 2) \div 3)) |-> ch(j)]

\* atob(b64): the forgiving-base64 decode of the HTML standard.  The result
\* is [ok |-> FALSE] (InvalidCharacterError) or [ok |-> TRUE, u8 |-> bytes].
IsAsciiWhitespace(c) == c \in {9, 10, 12, 13, 32}
NotAsciiWhitespace(c) == ~IsAsciiWhitespace(c)

atob(b64) ==
    LET s0 == SelectSeq(b64, NotAsciiWhitespace)
        s1 == IF Len(s0) % 4 = 0 /\ Len(s0) > 0 /\ s0[Len(s0)] = 61
              THEN IF Len(s0) > 1 /\ s0[Len(s0) - 1] = 61
                   THEN SubSeq(s0, 1, Len(s0) - 2)
                   ELSE SubSeq(s0, 1, Len(s0) - 1)
              ELSE s0
        n  == Len(s1)
        v(j) == IF j <= n THEN B64Val(s1[j]) ELSE 0
        nbytes == (n \div 4) * 3
                  + (IF n % 4 = 2 THEN 1 ELSE IF n % 4 = 3 THEN 2 ELSE 0)
        byte(k) ==
            LET g == (k - 1) \div 3
                r == (k - 1) % 3
                a == v(4 * g + 1)
                b == v(4 * g + 2)
                c == v(4 * g + 3)
                d == v(4 * g + 4)
            IN  IF r = 0 THEN a * 4 + (b \div 16)
                ELSE IF r = 1 THEN (b % 16) * 16 + (c \div 4)
                ELSE (c % 4) * 64 + d
    IN  IF n % 4 = 1 \/ \E j \in 1..n : ~IsB64Char(s1[j])
        THEN [ok |-> FALSE, u8 |-> <<>>]
        ELSE [ok |-> TRUE, u8 |-> [k \in 1..nbytes |-> byte(k)]]

\* str.replace(/=+$/g, ""): the string without its trailing '=' characters.
RECURSIVE StripPadding(_)
StripPadding(s) ==
    IF Len(s) > 0 /\ s[Len(s)] = 61
    THEN StripPadding(SubSeq(s, 1, Len(s) - 1))
    ELSE s

\* A toBase64Url that leaves the padding on.
toBase64UrlPadded(u8) ==
    LET b64 == btoa(u8)
    IN  [j \in 1..Len(b64) |->
           IF b64[j] = 43 THEN 45 ELSE IF b64[j] = 47 THEN 95 ELSE b64[j]]

\* toBase64Url: String.fromCharCode over 32 KiB windows yields the binary
\* string of the same bytes; then btoa, '+' -> '-', '/' -> '_', padding
\* stripped.
toBase64Url(u8) ==
    LET b64 == btoa(u8)
        url == [j \in 1..Len(b64) |->
                  IF b64[j] = 43 THEN 45 ELSE IF b64[j] = 47 THEN 95 ELSE b64[j]]
    IN  StripPadding(url)

\* fromBase64Url: '-' -> '+', '_' -> '/', then "===".slice((len + 3) % 4)
\* appended, then atob.  The result keeps atob's failure.
fromBase64Url(str) ==
    LET std == [j \in 1..Len(str) |->
                  IF str[j] = 45 THEN 43 ELSE IF str[j] = 95 THEN 47 ELSE str[j]]
        pad == subarray(<<61, 61, 61>>, (Len(str) + 3) % 4, 3)
    IN  atob(std \o pad)

\* Buffer.from(u8).toString("base64"): each group of three bytes as a 24-bit
\* number in four characters; a last group of one or two bytes in two or
\* three characters and '=' up to four.
RECURSIVE bufferToBase64(_)
bufferToBase64(u8) ==
    IF Len(u8) = 0 THEN <<>>
    ELSE IF Len(u8) = 1
    THEN LET n == u8[1] * 65536
         IN  <<B64Char(n \div 262144), B64Char((n \div 4096) % 64), 61, 61>>
    ELSE IF Len(u8) = 2
    THEN LET n == u8[1] * 65536 + u8[2] * 256
         IN  <<B64Char(n \div 262144), B64Char((n \div 4096) % 64),
               B64Char((n \div 64) % 64), 61>>
    ELSE LET n == u8[1] * 65536 + u8[2] * 256 + u8[3]
         IN  <<B64Char(n \div 262144), B64Char((n \div 4096) % 64),
               B64Char((n \div 64) % 64), B64Char(n % 64)>>
             \o bufferToBase64(SubSeq(u8, 4, Len(u8)))

\* Buffer.from(str, "base64"): decoding stops at the first '=', characters of
\* neither alphabet are skipped, '-' and '_' count as '+' and '/', and the
\* bits left over after the last whole byte are dropped.  It never throws.
IsBufferB64Char(c) == IsB64Char(c) \/ c = 45 \/ c = 95
BufferB64Val(c) == IF c = 45 THEN 62 ELSE IF c = 95 THEN 63 ELSE B64Val(c)
RECURSIVE UpToPadding(_)
UpToPadding(s) ==
    IF Len(s) = 0 \/ s[1] = 61 THEN <<>> ELSE <<s[1]>> \o UpToPadding(Tail(s))
bufferFromBase64(str) ==
    LET s1 == SelectSeq(UpToPadding(str), IsBufferB64Char)
        n  == Len(s1)
        \* bit number i (0 the first) of the 6-bit values in a row
        bit(i) == (BufferB64Val(s1[(i \div 6) + 1]) \div (2 ^ (5 - (i % 6)))) % 2
        byte(k) == bit(8 * k - 8) * 128 + bit(8 * k - 7) * 64 + bit(8 * k - 6) * 32
                   + bit(8 * k - 5) * 16 + bit(8 * k - 4) * 8 + bit(8 * k - 3) * 4
                   + bit(8 * k - 2) * 2 + bit(8 * k - 1)
    IN  [k \in 1..((6 * n) \div 8) |-> byte(k)]

\* The branches of toBase64Url and fromBase64Url taken where btoa / atob are
\* no functions: the Buffer fallback.
toBase64UrlByBuffer(u8) ==
    LET b64 == bufferToBase64(u8)
        url == [j \in 1..Len(b64) |->
                  IF b64[j] = 43 THEN 45 ELSE IF b64[j] = 47 THEN 95 ELSE b64[j]]
    IN  StripPadding(url)
fromBase64UrlByBuffer(str) ==
    LET std == [j \in 1..Len(str) |->
                  IF str[j] = 45 THEN 43 ELSE IF str[j] = 95 THEN 47 ELSE str[j]]
        pad == subarray(<<61, 61, 61>>, (Len(str) + 3) % 4, 3)
    IN  [ok |-> TRUE, u8 |-> bufferFromBase64(std \o pad)]

\* A code unit of a well-formed string that is no surrogate.
IsSurrogate(cu) == cu >= 55296 /\ cu <= 57343
IsHighSurrogate(cu) == cu >= 55296 /\ cu <= 56319
IsLowSurrogate(cu) == cu >= 56320 /\ cu <= 57343

\* TextEncoder.encode: UTF-8 of a sequence of UTF-16 code units; a lone
\* surrogate is encoded as U+FFFD (EF BF BD).  encodeAt is the step at code
\* unit i (1-based): the bytes it yields and the index of the next step.
encodeAt(str, i) ==
    LET cu == str[i] IN
    IF cu < 128 THEN [out |-> <<cu>>, next |-> i + 1]
    ELSE IF cu < 2048
    THEN [out |-> <<192 + (cu \div 64), 128 + (cu % 64)>>, next |-> i + 1]
    ELSE IF IsHighSurrogate(cu) /\ i < Len(str) /\ IsLowSurrogate(str[i + 1])
    THEN LET cp == 65536 + (cu - 55296) * 1024 + (str[i + 1] - 56320)
         IN  [out |-> << 240 + (cp \div 262144), 128 + ((cp \div 4096) % 64),
                         128 + ((cp \div 64) % 64), 128 + (cp % 64) >>,
              next |-> i + 2]
    ELSE IF IsSurrogate(cu)
    THEN [out |-> <<239, 191, 189>>, next |-> i + 1]
    ELSE [out |-> << 224 + (cu \div 4096), 128 + ((cu \div 64) % 64), 128 + (cu % 64) >>,
          next |-> i + 1]

\* The steps from index lo up to the first index at or beyond hi, halving the
\* range so that the evaluation stays shallow.
RECURSIVE encodeRange(_, _, _)
encodeRange(str, lo, hi) ==
    IF lo >= hi THEN [out |-> <<>>, next |-> lo]
    ELSE IF hi - lo = 1 THEN encodeAt(str, lo)
    ELSE LET mid == (lo + hi) \div 2
             l   == encodeRange(str, lo, mid)
             r   == encodeRange(str, l.next, hi)
         IN  [out |-> l.out \o r.out, next |-> r.next]

textEncode(str) == encodeRange(str, 1, Len(str) + 1).out

\* The UTF-8 decoder of the Encoding standard, not fatal: an ill-formed
\* sequence yields U+FFFD (65533) and decoding resumes at the offending byte.
IsCont(b, lo, hi) == b >= lo /\ b <= hi

\* The step at byte offset o (0-based): the code units it yields and the
\* offset of the next step.
decodeAt(u8, o) ==
    LET b0 == u8[o + 1]
        has(k) == o + k < Len(u8)
        b(k)   == u8[o + k + 1]
        lo2    == IF b0 = 224 THEN 160 ELSE IF b0 = 240 THEN 144 ELSE 128
        hi2    == IF b0 = 237 THEN 159 ELSE IF b0 = 244 THEN 143 ELSE 191
        bad(n) == [out |-> <<65533>>, next |-> o + n]
    IN  IF b0 < 128 THEN [out |-> <<b0>>, next |-> o + 1]
        ELSE IF b0 >= 194 /\ b0 <= 223
        THEN IF has(1) /\ IsCont(b(1), 128, 191)
             THEN [out |-> <<(b0 - 192) * 64 + (b(1) - 128)>>, next |-> o + 2]
             ELSE bad(1)
        ELSE IF b0 >= 224 /\ b0 <= 239
        THEN IF ~(has(1) /\ IsCont(b(1), lo2, hi2)) THEN bad(1)
             ELSE IF ~(has(2) /\ IsCont(b(2), 128, 191)) THEN bad(2)
             ELSE [out |-> <<(b0 - 224) * 4096 + (b(1) - 128) * 64 + (b(2) - 128)>>,
                   next |-> o + 3]
        ELSE IF b0 >= 240 /\ b0 <= 244
        THEN IF ~(has(1) /\ IsCont(b(1), lo2, hi2)) THEN bad(1)
             ELSE IF ~(has(2) /\ IsCont(b(2), 128, 191)) THEN bad(2)
             ELSE IF ~(has(3) /\ IsCont(b(3), 128, 191)) THEN bad(3)
             ELSE LET cp == (b0 - 240) * 262144 + (b(1) - 128) * 4096
                            + (b(2) - 128) * 64 + (b(3) - 128) - 65536
                  IN  [out |-> <<55296 + (cp \div 1024), 56320 + (cp % 1024)>>,
                       next |-> o + 4]
        ELSE bad(1)

RECURSIVE decodeRange(_, _, _)
decodeRange(u8, lo, hi) ==
    IF lo >= hi THEN [out |-> <<>>, next |-> lo]
    ELSE IF hi - lo = 1 THEN decodeAt(u8, lo)
    ELSE LET mid == (lo + hi) \div 2
             l   == decodeRange(u8, lo, mid)
             r   == decodeRange(u8, l.next, hi)
         IN  [out |-> l.out \o r.out, next |-> r.next]

utf8Decode(u8, o) == decodeRange(u8, o, Len(u8)).out

\* textDecoder.decode(u8) of `new TextDecoder()`: UTF-8, fatal = false,
\* ignoreBOM = false, so a leading byte order mark EF BB BF is consumed and
\* does not appear in the string.
textDecode(u8) ==
    IF Len(u8) >= 3 /\ u8[1] = 239 /\ u8[2] = 187 /\ u8[3] = 191
    THEN utf8Decode(u8, 3)
    ELSE utf8Decode(u8, 0)

\* ------------------------------------------------------------------------
\* JSON.stringify / JSON.parse of the metadata record (BaseMeta, container.ts)
\* ------------------------------------------------------------------------
\* Property names and string values of BaseMeta, as code units.
K_type       == <<116, 121, 112, 101>>
K_alg        == <<97, 108, 103>>
K_mime       == <<109, 105, 109, 101>>
K_compressed == <<99, 111, 109, 112, 114, 101, 115, 115, 101, 100>>
K_single     == <<115, 105, 110, 103, 108, 101>>
K_iv         == <<105, 118>>
K_size       == <<115, 105, 122, 101>>
K_chunkSize  == <<99, 104, 117, 110, 107, 83, 105, 122, 101>>
K_chunked    == <<99, 104, 117, 110, 107, 101, 100>>
TEXT         == <<116, 101, 120, 116>>
BLOB         == <<98, 108, 111, 98>>
LIT_true     == <<116, 114, 117, 101>>
LIT_false    == <<102, 97, 108, 115, 101>>

\* A JSON value of the three kinds BaseMeta holds.  Every value has the same
\* shape, so that two values can always be compared.
JStr(s)  == [t |-> "string",  s |-> s,    b |-> FALSE, n |-> 0]
JBool(b) == [t |-> "boolean", s |-> <<>>, b |-> b,     n |-> 0]
JNum(n)  == [t |-> "number",  s |-> <<>>, b |-> FALSE, n |-> n]

\* A metadata object under construction is the sequence of its properties in
\* insertion order, which is the order JSON.stringify writes them in.
Prop(k, v) == [k |-> k, v |-> v]

\* Number.prototype.toString of an integer.
RECURSIVE Digits(_)
Digits(n) == IF n < 10 THEN <<48 + n>> ELSE Digits(n \div 10) \o <<48 + (n % 10)>>
NumberToString(n) == IF n < 0 THEN <<45>> \o Digits(0 - n) ELSE Digits(n)

StringifyValue(v) ==
    IF v.t = "string" THEN <<34>> \o v.s \o <<34>>
    ELSE IF v.t = "boolean" THEN (IF v.b THEN LIT_true ELSE LIT_false)
    ELSE NumberToString(v.n)

\* JSON.stringify(meta): {"k":v,"k":v,...} with no white space.  The strings
\* of the model hold no character that JSON escapes.
JSONstringify(meta) ==
    LET RECURSIVE members(_)
        members(i) ==
            IF i > Len(meta) THEN <<>>
            ELSE (IF i > 1 THEN <<44>> ELSE <<>>)
                 \o <<34>> \o meta[i].k \o <<34, 58>> \o StringifyValue(meta[i].v)
                 \o members(i + 1)
    IN  <<123>> \o members(1) \o <<125>>

\* The property name a key of the JSON text stands for.
KeyName(k) ==
    IF k = K_type THEN "type"
    ELSE IF k = K_alg THEN "alg"
    ELSE IF k = K_mime THEN "mime"
    ELSE IF k = K_compressed THEN "compressed"
    ELSE IF k = K_single THEN "single"
    ELSE IF k = K_iv THEN "iv"
    ELSE IF k = K_size THEN "size"
    ELSE IF k = K_chunkSize THEN "chunkSize"
    ELSE IF k = K_chunked THEN "chunked"
    ELSE "other"

ParseFail == [ok |-> FALSE, v |-> JBool(FALSE), next |-> 0]

\* A JSON string starting at position p (1-based) of text t: the characters up
\* to the next quotation mark.  A control character or a backslash escape is
\* outside the texts of the model and is rejected.
ParseString(t, p) ==
    IF p > Len(t) \/ t[p] # 34 THEN ParseFail
    ELSE LET near == {q \in (p + 1)..Min(Len(t), p + 32) : t[q] = 34}
             qs   == IF near # {} THEN near
                     ELSE {q \in (p + 33)..Len(t) : t[q] = 34}
         IN
         IF qs = {} THEN ParseFail
         ELSE LET q == CHOOSE x \in qs : \A y \in qs : x <= y
                  s == SubSeq(t, p + 1, q - 1)
              IN  IF \E j \in 1..Len(s) : s[j] < 32 \/ s[j] = 92
                  THEN ParseFail
                  ELSE [ok |-> TRUE, v |-> JStr(s), next |-> q + 1]

IsDigit(c) == c >= 48 /\ c <= 57

RECURSIVE DigitsValue(_, _, _)
DigitsValue(t, p, e) ==
    IF e < p THEN 0 ELSE DigitsValue(t, p, e - 1) * 10 + (t[e] - 48)

\* A JSON integer: -?(0|[1-9][0-9]*), at most 9 digits here.
ParseNumber(t, p) ==
    LET neg == p <= Len(t) /\ t[p] = 45
        d   == IF neg THEN p + 1 ELSE p
        nd  == {q \in d..Len(t) : ~IsDigit(t[q])}
        e   == IF nd = {} THEN Len(t)
               ELSE (CHOOSE x \in nd : \A y \in nd : x <= y) - 1
    IN  IF e < d \/ e - d >= 9 \/ (t[d] = 48 /\ e > d) THEN ParseFail
        ELSE [ok |-> TRUE,
              v |-> JNum(IF neg THEN 0 - DigitsValue(t, d, e) ELSE DigitsValue(t, d, e)),
              next |-> e + 1]

ParseValue(t, p) ==
    IF p > Len(t) THEN ParseFail
    ELSE IF t[p] = 34 THEN ParseString(t, p)
    ELSE IF subarray(t, p - 1, p + 3) = LIT_true
    THEN [ok |-> TRUE, v |-> JBool(TRUE), next |-> p + 4]
    ELSE IF subarray(t, p - 1, p + 4) = LIT_false
    THEN [ok |-> TRUE, v |-> JBool(FALSE), next |-> p + 5]
    ELSE ParseNumber(t, p)

\* The members of an object from position p on, up to its closing brace, which
\* must be the last character of the text.  acc maps the property names read
\* so far to their values; a repeated name keeps its last value.
RECURSIVE ParseMembers(_, _, _)
ParseMembers(t, p, acc) ==
    LET k == ParseString(t, p) IN
    IF ~k.ok \/ k.next > Len(t) \/ t[k.next] # 58 THEN [ok |-> FALSE, obj |-> acc]
    ELSE LET v == ParseValue(t, k.next + 1) IN
         IF ~v.ok \/ v.next > Len(t) THEN [ok |-> FALSE, obj |-> acc]
         ELSE LET acc2 == (KeyName(k.v.s) :> v.v) @@ acc IN
              IF t[v.next] = 125
              THEN [ok |-> v.next = Len(t), obj |-> acc2]
              ELSE IF t[v.next] = 44
              THEN ParseMembers(t, v.next + 1, acc2)
              ELSE [ok |-> FALSE, obj |-> acc2]

\* JSON.parse(text) for the texts a metadata block can hold: a flat object of
\* strings, booleans and integers written without white space.  ok = FALSE is
\* the SyntaxError JSON.parse throws.
EmptyObject == [x \in {} |-> JBool(FALSE)]

JSONparse(t) ==
    IF Len(t) < 2 \/ t[1] # 123 THEN [ok |-> FALSE, obj |-> EmptyObject]
    ELSE IF t = <<123, 125>> THEN [ok |-> TRUE, obj |-> EmptyObject]
    ELSE ParseMembers(t, 2, EmptyObject)

\* Property reads of a parsed object.
Has(obj, name) == name \in DOMAIN obj
\* A truthiness test that is content with any value of the property.
TruthyPresent(obj, name) == name \in DOMAIN obj

\* !!obj[name]
Truthy(obj, name) ==
    /\ Has(obj, name)
    /\ LET v == obj[name] IN
       \/ v.t = "string" /\ v.s # <<>>
       \/ v.t = "boolean" /\ v.b
       \/ v.t = "number" /\ v.n # 0
\* A comparison that is content with any value of the property.
IsStringPresent(obj, name, s) == Has(obj, name)

\* obj[name] === <the string s>
IsString(obj, name, s) == Has(obj, name) /\ obj[name].t = "string" /\ obj[name].s = s

\* A packContainer that writes the two flag bits the other way round.
containerBytesFlagsSwapped(compressed, isChunked, meta, payloadU8) ==
    LET flags   == (IF compressed THEN 2 ELSE 0) + (IF isChunked THEN 1 ELSE 0)
        metaU8  == textEncode(JSONstringify(meta))
    IN  concatU8(<<textEncode(MAGIC), <<VERSION % 256>>, <<flags>>, <<ALG_ID>>,
                   u32be(Len(metaU8)), metaU8, payloadU8>>)

\* ------------------------------------------------------------------------
\* container.ts
\* ------------------------------------------------------------------------
\* The bytes packContainer concatenates, before the Base64URL encoding.
containerBytes(compressed, isChunked, meta, payloadU8) ==
    LET magic   == textEncode(MAGIC)
        version == <<VERSION % 256>>
        flags   == (IF compressed THEN 1 ELSE 0) + (IF isChunked THEN 2 ELSE 0)
        flagsU8 == <<flags>>
        algId   == <<ALG_ID>>
        metaU8  == textEncode(JSONstringify(meta))
        metaLen == u32be(Len(metaU8))
    IN  concatU8(<<magic, version, flagsU8, algId, metaLen, metaU8, payloadU8>>)

packContainer(compressed, isChunked, meta, payloadU8) ==
    toBase64Url(containerBytes(compressed, isChunked, meta, payloadU8))

\* The errors of the program, named as the specification's taxonomy names them:
\*   "Unrecognized container format (magic)."            UnrecognizedFormat
\*   "Container version not supported."                  UnsupportedVersion
\*   "Algorithm not supported."                          UnsupportedAlgorithm
\*   SyntaxError of JSON.parse                           MalformedMetadata
\*   InvalidCharacterError of atob                       InvalidCharacter
\*   "Content is chunked (file). Use decryptToBlob()."   ChunkedContent (the
\*       taxonomy has no name of its own for it: a rejection of the wrong
\*       kind of container, with a message of its own)
\*   "Content type is not text." / "... is not blob."    WrongContentKind
\*   "Missing IV in container metadata."                 MissingIv
\*   "Corrupted chunk container (len)." / "(data)."      CorruptedChunkContainer
\*   OperationError of subtle.decrypt                    AuthenticationFailed
\*   "Compression bindings not available ..."            CompressionUnavailable
\*   the binding's own decompress error                  DecompressionFailed
\*   AbortError                                          Aborted
\* The source throws no error of its own for a metadata length that exceeds
\* the buffer (TruncatedContainer in the taxonomy).

Unpacked(err, compressed, isChunked, meta, payloadU8, metaLen, parsed, sliceLen) ==
    [err |-> err, compressed |-> compressed, isChunked |-> isChunked,
     meta |-> meta, payloadU8 |-> payloadU8,
     \* what the call did, for the properties: the length field it read,
     \* whether JSON.parse was called, and the length of the slice it was given
     metaLen |-> metaLen, parsed |-> parsed, sliceLen |-> sliceLen]

UnpackError(err) == Unpacked(err, FALSE, FALSE, EmptyObject, <<>>, 0, FALSE, 0)

\* A header check that looks at the version before the magic.
headerCheckVersionFirst(bin) ==
    IF Len(bin) <= 4 \/ byteAt(bin, 4) # VERSION THEN "UnsupportedVersion"
    ELSE IF textDecode(subarray(bin, 0, 4)) # MAGIC THEN "UnrecognizedFormat"
    ELSE IF Len(bin) <= 6 \/ byteAt(bin, 6) # ALG_ID THEN "UnsupportedAlgorithm"
    ELSE "none"

\* The three checks unpackContainer makes before it reads the metadata
\* length: the error it throws, or "none".  A byte past the end of bin reads
\* as undefined, which equals neither VERSION nor 0x01.
headerCheck(bin) ==
    LET magic      == textDecode(subarray(bin, 0, 4))
        hasVersion == Len(bin) > 4
        version    == byteAt(bin, 4)
        hasAlgId   == Len(bin) > 6
        algId      == byteAt(bin, 6)
    IN  IF magic # MAGIC THEN "UnrecognizedFormat"
        ELSE IF ~hasVersion \/ version # VERSION THEN "UnsupportedVersion"
        ELSE IF ~hasAlgId \/ algId # ALG_ID THEN "UnsupportedAlgorithm"
        ELSE "none"

\* unpackContainer of the decoded bytes bin.
unpackBytes(bin) ==
    LET header     == headerCheck(bin)
        flags      == byteAt(bin, 5)
        compressed == flags % 2 # 0
        isChunked  == (flags \div 2) % 2 # 0
        metaLen    == readU32be(bin, 7)
        slice      == subarray(bin, 11, 11 + metaLen)
        json       == JSONparse(textDecode(slice))
        payloadU8  == subarray(bin, 11 + metaLen, Len(bin))
    IN  IF header # "none" THEN UnpackError(header)
        ELSE IF ~json.ok
        THEN Unpacked("MalformedMetadata", compressed, isChunked, EmptyObject, <<>>,
                      metaLen, TRUE, Len(slice))
        ELSE Unpacked("none", compressed, isChunked, json.obj, payloadU8,
                      metaLen, TRUE, Len(slice))

unpackContainer(b64u) ==
    LET bin == fromBase64Url(b64u) IN
    IF ~bin.ok THEN UnpackError("InvalidCharacter") ELSE unpackBytes(bin.u8)

\* ------------------------------------------------------------------------
\* State
\* ------------------------------------------------------------------------
VARIABLES
    \* the environment: "browser" has CompressionStream / DecompressionStream,
    \* "node" is Node.js with node:zlib, "bare" has neither
    runtime,
    \* env/compression.ts: the module's own variables
    hasOverride, overrideBinding, nodeBindingPromise,
    \* the AEAD capability: what has been sealed so far, under which key, IV
    \* and additional data (subtle.decrypt accepts exactly these)
    sealed,
    \* the random generator: the IVs randomIv() has returned so far, in order
    drawn,
    \* the container string at hand: the last one encryption returned, or one
    \* built or altered by a caller
    wire,
    \* how wire came to be: the call that made it and what was done to it since
    made,
    \* the blob call in progress: its function, its position and its arguments
    op, pc, args,
    \* the local variables of the encryptBlob / decryptToBlob call in progress
    enc, dec,
    \* AbortSignal.aborted of the signal handed to the call
    aborted,
    \* what the onProgress observer of the call has been told
    reports,
    \* how the last call ended
    res,
    \* what the last direct call of unpackContainer returned
    unpacked,
    \* how many times the decryption in progress (or the last one) has
    \* invoked subtle.decrypt
    decryptCalls,
    \* a second caller of the same module: its container at hand and its
    \* call, while the first caller's are the variables above
    other

envVars  == <<runtime, hasOverride, overrideBinding, nodeBindingPromise>>
callVars == <<op, pc, args, enc, dec, aborted, reports>>
vars     == <<runtime, hasOverride, overrideBinding, nodeBindingPromise, sealed,
              drawn, wire, made, op, pc, args, enc, dec, aborted, reports, res, unpacked,
              decryptCalls, other>>

\* ------------------------------------------------------------------------
\* env/compression.ts and compression.ts
\* ------------------------------------------------------------------------
\* A binding is named by what it does: "gzip" is the environment's own
\* (CompressionStream in a browser, node:zlib in Node.js), "reverse" is the
\* override the tests install, "null" is no binding (undefined).
Reverse(u8) == [i \in 1..Len(u8) |-> u8[Len(u8) + 1 - i]]

\* gzip as a capability: a framed copy of the input (two magic bytes, the
\* data, the length modulo 256 as trailer); gunzip rejects any other framing.
Gzip(u8) == <<31, 139>> \o u8 \o <<Len(u8) % 256>>
GunzipOk(u8) ==
    /\ Len(u8) >= 3
    /\ u8[1] = 31
    /\ u8[2] = 139
    /\ u8[Len(u8)] = (Len(u8) - 3) % 256
Gunzip(u8) == SubSeq(u8, 3, Len(u8) - 1)

BindingCompress(binding, u8) ==
    IF binding = "reverse" THEN Reverse(u8) ELSE Gzip(u8)
BindingDecompressOk(binding, u8) ==
    IF binding = "reverse" THEN TRUE ELSE GunzipOk(u8)
BindingDecompress(binding, u8) ==
    IF binding = "reverse" THEN Reverse(u8) ELSE Gunzip(u8)

\* createNodeBinding(): the zlib binding in Node.js, undefined elsewhere.
createNodeBinding == IF runtime = "node" THEN "gzip" ELSE "null"

\* A getCompressionBinding that takes an override of undefined for none.
getCompressionBindingOrOwn ==
    IF hasOverride /\ overrideBinding # "null" THEN overrideBinding
    ELSE IF runtime = "browser" THEN "gzip"
    ELSE IF nodeBindingPromise = "unset" THEN createNodeBinding
    ELSE nodeBindingPromise


\* getCompressionBinding(): the binding it resolves to in the current state ...
getCompressionBinding ==
    IF hasOverride THEN overrideBinding
    ELSE IF runtime = "browser" THEN "gzip"
    ELSE IF nodeBindingPromise = "unset" THEN createNodeBinding
    ELSE nodeBindingPromise

\* ... and the value it leaves in nodeBindingPromise.
getCompressionBindingCache ==
    IF ~hasOverride /\ runtime # "browser" /\ nodeBindingPromise = "unset"
    THEN createNodeBinding
    ELSE nodeBindingPromise

\* maybeCompress(u8, enabled) with getCompressionBinding() resolved to binding.
maybeCompress(u8, enabled, binding) ==
    IF ~enabled THEN [compressed |-> FALSE, data |-> u8]
    ELSE IF binding = "null" THEN [compressed |-> FALSE, data |-> u8]
    ELSE [compressed |-> TRUE, data |-> BindingCompress(binding, u8)]

\* A maybeDecompress that hands the bytes back when there is no binding.
maybeDecompressSilent(u8, compressed, binding) ==
    IF ~compressed \/ binding = "null" THEN [err |-> "none", u8 |-> u8]
    ELSE IF ~BindingDecompressOk(binding, u8)
    THEN [err |-> "DecompressionFailed", u8 |-> <<>>]
    ELSE [err |-> "none", u8 |-> BindingDecompress(binding, u8)]

\* maybeDecompress(u8, compressed) with getCompressionBinding() resolved to
\* binding: err is "none" or the error thrown.
maybeDecompress(u8, compressed, binding) ==
    IF ~compressed THEN [err |-> "none", u8 |-> u8]
    ELSE IF binding = "null" THEN [err |-> "CompressionUnavailable", u8 |-> <<>>]
    ELSE IF ~BindingDecompressOk(binding, u8)
    THEN [err |-> "DecompressionFailed", u8 |-> <<>>]
    ELSE [err |-> "none", u8 |-> BindingDecompress(binding, u8)]

\* Whether maybeCompress / maybeDecompress reach getCompressionBinding().
SetsCache(uses) == nodeBindingPromise' = IF uses THEN getCompressionBindingCache
                                         ELSE nodeBindingPromise

\* ------------------------------------------------------------------------
\* AES-GCM (subtle.encrypt / subtle.decrypt), an external capability
\* ------------------------------------------------------------------------
RECURSIVE SumRange(_, _, _)
SumRange(q, lo, hi) ==
    IF lo > hi THEN 0
    ELSE IF lo = hi THEN q[lo]
    ELSE SumRange(q, lo, (lo + hi) \div 2) + SumRange(q, (lo + hi) \div 2 + 1, hi)
SumSeq(q) == SumRange(q, 1, Len(q))

\* The counter-mode part: one masked byte per plaintext byte.
Mask(key, iv, k) == (key * 16 + SumSeq(iv) + k) % 256
\* The ciphertext with its tag appended.
Seal(key, iv, data, aad) ==
    LET body == [k \in 1..Len(data) |-> (data[k] + Mask(key, iv, k)) % 256]
        t    == key + SumSeq(iv) + SumSeq(aad) + SumSeq(body)
    IN  body \o [j \in 1..TAG_BYTES |-> (t + 17 * j) % 256]

\* One encryption in the capability's log: n counts the encryptions before it.
SealRecord(key, iv, data, aad) ==
    [key |-> key, iv |-> iv, aad |-> aad, ct |-> Seal(key, iv, data, aad), pt |-> data,
     n |-> Cardinality(sealed)]

\* aesGcmEncrypt: the ciphertext; the capability remembers what it sealed.
aesGcmEncrypt(key, iv, data, aad) == Seal(key, iv, data, aad)

\* aesGcmDecrypt: the plaintext of a ciphertext sealed under this key, IV and
\* additional data; anything else is rejected (OperationError).
aesGcmDecryptOk(key, iv, ct, aad) ==
    \E r \in sealed : r.key = key /\ r.iv = iv /\ r.aad = aad /\ r.ct = ct
aesGcmDecrypt(key, iv, ct, aad) ==
    (CHOOSE r \in sealed : r.key = key /\ r.iv = iv /\ r.aad = aad /\ r.ct = ct).pt

\* ------------------------------------------------------------------------
\* encryption.ts: encryptString / decryptToString
\* ------------------------------------------------------------------------
\* textEncode(`${ALG}|text|v${VERSION}`)
textAad == textEncode(ALG \o <<124>> \o TEXT \o <<124, 118>> \o NumberToString(VERSION))
\* An additional data for blobs that leaves the MIME type out.
blobAadWithoutMime(mime) ==
    textEncode(ALG \o <<124>> \o BLOB \o <<124, 118>> \o NumberToString(VERSION))

\* textEncode(`${ALG}|blob|v${VERSION}|${mime}`)
blobAad(mime) ==
    textEncode(ALG \o <<124>> \o BLOB \o <<124, 118>> \o NumberToString(VERSION)
               \o <<124>> \o mime)

Outcome(status, err, text, bytes, mime) ==
    [status |-> status, err |-> err, text |-> text, bytes |-> bytes, mime |-> mime]
NoOutcome  == Outcome("none", "none", <<>>, <<>>, <<>>)
\* A failure that resolves with an empty result instead of rejecting.
FailedResolves(err) == Outcome("ok", "none", <<>>, <<>>, <<>>)

\* A rejected call: the error, and nothing else.
Failed(err) == Outcome("error", err, <<>>, <<>>, <<>>)

\* The arguments of a call: its function, the key, the binary input, the
\* options, and (for the record) the binding its compression step resolved.
\* signal is "none" (no AbortSignal given), "live" or "aborted" (as handed in).
Args(fn, key, blob, compress, chunkSize, mimeType, output, signal, binding) ==
    [fn |-> fn, key |-> key, blob |-> blob, compress |-> compress,
     chunkSize |-> chunkSize, mimeType |-> mimeType, output |-> output,
     signal |-> signal, binding |-> binding]
NoBlob == [isBlob |-> FALSE, type |-> <<>>, data |-> <<>>]
NoArgs == Args("none", 0, NoBlob, FALSE, 0, <<>>, "none", "none", "null")

\* What is known of the container at hand: the call that made it and its
\* arguments, the plaintext and the MIME type that went in, whether it came
\* out of the chunked branch, and what a caller has altered since (and, for
\* a flipped bit, which bit of which payload byte).
Made(by, call, plain, mime, chunked, altered) ==
    [by |-> by, call |-> call, plain |-> plain, mime |-> mime, chunked |-> chunked,
     altered |-> altered, at |-> [pos |-> 0, bit |-> 0]]
NotMade == Made("none", NoArgs, <<>>, <<>>, FALSE, "none")

\* The metadata encryptString writes.
textMeta(iv, compressed) ==
    << Prop(K_type, JStr(TEXT)), Prop(K_alg, JStr(ALG)),
       Prop(K_iv, JStr(toBase64Url(iv))), Prop(K_compressed, JBool(compressed)) >>

\* encryptString(plainText, key, {compress}) with randomIv() returning iv.
\* (A value an action uses more than once is bound with \E over a singleton
\* set, so that it is computed once.)
encryptString(plainText, key, compress, iv) ==
    \E binding \in {getCompressionBinding}, aad \in {textAad} :
    \E c \in {maybeCompress(textEncode(plainText), compress, binding)} :
    LET ct   == aesGcmEncrypt(key, iv, c.data, aad)
        meta == textMeta(iv, c.compressed)
    IN  /\ op = "idle"
        /\ SetsCache(compress)
        /\ sealed' = sealed \cup {SealRecord(key, iv, c.data, aad)}
        /\ drawn' = Append(drawn, iv)
        /\ wire' = packContainer(c.compressed, FALSE, meta, ct)
        /\ args' = Args("encryptString", key, NoBlob, compress, 0, <<>>, "none", "none",
                        binding)
        /\ made' = Made("encryptString", args', plainText, <<>>, FALSE, "none")
        /\ res' = Outcome("ok", "none", wire', <<>>, <<>>)
        /\ UNCHANGED <<other, runtime, hasOverride, overrideBinding, op, pc, enc, dec,
                       aborted, reports, unpacked, decryptCalls>>

\* decryptToString(packedB64u, key) once unpackContainer has returned c (or
\* thrown c.err): how the call ends, ...
decryptToStringOutcome(c, key, binding) ==
    IF c.err # "none" THEN Failed(c.err)
    ELSE IF c.isChunked THEN Failed("ChunkedContent")
    ELSE IF ~IsString(c.meta, "type", TEXT) THEN Failed("WrongContentKind")
    ELSE IF ~Truthy(c.meta, "iv") THEN Failed("MissingIv")
    ELSE LET iv == fromBase64Url(c.meta["iv"].s) IN
         IF ~iv.ok THEN Failed("InvalidCharacter")
         ELSE IF ~aesGcmDecryptOk(key, iv.u8, c.payloadU8, textAad)
         THEN Failed("AuthenticationFailed")
         ELSE LET pt == aesGcmDecrypt(key, iv.u8, c.payloadU8, textAad)
                  u8 == maybeDecompress(pt, c.compressed, binding)
              IN  IF u8.err # "none" THEN Failed(u8.err)
                  ELSE Outcome("ok", "none", textDecode(u8.u8), <<>>, <<>>)

\* ... whether it gets as far as calling aesGcmDecrypt, ...
decryptToStringDecrypts(c) ==
    /\ c.err = "none"
    /\ ~c.isChunked
    /\ IsString(c.meta, "type", TEXT)
    /\ Truthy(c.meta, "iv")
    /\ fromBase64Url(c.meta["iv"].s).ok

\* ... and as far as maybeDecompress's binding lookup.
decryptToStringLooksUp(c, key) ==
    /\ decryptToStringDecrypts(c)
    /\ aesGcmDecryptOk(key, fromBase64Url(c.meta["iv"].s).u8, c.payloadU8, textAad)
    /\ c.compressed

\* decryptToString(packedB64u, key) of the container at hand.
decryptToString(key) ==
    \E c \in {unpackContainer(wire)} :
    /\ op = "idle"
    /\ made.by # "none"
    /\ SetsCache(decryptToStringLooksUp(c, key))
    /\ res' = decryptToStringOutcome(c, key, getCompressionBinding)
    /\ args' = Args("decryptToString", key, NoBlob, FALSE, 0, <<>>, "none", "none",
                     getCompressionBinding)
    /\ decryptCalls' = IF decryptToStringDecrypts(c) THEN 1 ELSE 0
    /\ UNCHANGED <<other, runtime, hasOverride, overrideBinding, sealed, drawn, wire, made,
                   op, pc, enc, dec, aborted, reports, unpacked>>

\* setCompressionBindingOverride(binding) / clearCompressionBindingOverride():
\* calls of their own, which return nothing.  They are synchronous and touch
\* the module's two variables only, so they may run while a blob call waits at
\* one of its awaits; the record of the last call is reset between calls.
setCompressionBindingOverride(binding) ==
    /\ overrideBinding' = binding
    /\ hasOverride' = TRUE
    /\ args' = IF op = "idle" THEN NoArgs ELSE args
    /\ res' = IF op = "idle" THEN NoOutcome ELSE res
    /\ UNCHANGED <<other, runtime, nodeBindingPromise, sealed, drawn, wire, made, op, pc,
                   enc, dec, aborted, reports, unpacked, decryptCalls>>

clearCompressionBindingOverride ==
    /\ overrideBinding' = "null"
    /\ hasOverride' = FALSE
    /\ args' = IF op = "idle" THEN NoArgs ELSE args
    /\ res' = IF op = "idle" THEN NoOutcome ELSE res
    /\ UNCHANGED <<other, runtime, nodeBindingPromise, sealed, drawn, wire, made, op, pc,
                   enc, dec, aborted, reports, unpacked, decryptCalls>>

\* ------------------------------------------------------------------------
\* env/file.ts: createBinarySource
\* ------------------------------------------------------------------------
\* A binary input is a Blob (with its own, possibly empty, type) or a byte
\* buffer.  An empty string stands for every falsy MIME value (undefined, "").
\* A createBinarySource that forgets the mimeType option.
sourceMimeOptionDropped(blob, mimeType) ==
    IF blob.isBlob /\ blob.type # <<>> THEN blob.type ELSE DEFAULT_MIME

sourceMime(blob, mimeType) ==
    IF blob.isBlob /\ blob.type # <<>> THEN blob.type
    ELSE IF mimeType # <<>> THEN mimeType
    ELSE DEFAULT_MIME
sourceSize(blob) == Len(blob.data)
\* A getChunk that reads on to the end of the input.
getChunkToTheEnd(blob, start, end) == subarray(blob.data, start, Len(blob.data))

\* getChunk(start, end): blob.slice(start, end) / data.subarray(start, min(end, size))
getChunk(blob, start, end) == subarray(blob.data, start, Min(end, Len(blob.data)))

\* ------------------------------------------------------------------------
\* encryption.ts: progress and cancellation
\* ------------------------------------------------------------------------
\* Math.round(x) of a quotient p / q is floor(p / q + 1/2), for a divisor of
\* either sign.
RoundDiv(p, q) ==
    IF q > 0 THEN (2 * p + q) \div (2 * q) ELSE (0 - (2 * p + q)) \div (0 - 2 * q)

\* reportProgress: the report the observer receives.
progressInfo(processed, total) ==
    [processed |-> processed, total |-> total,
     percent |-> IF total # 0 THEN Min(100, RoundDiv(processed * 100, total))
                 ELSE IF processed # 0 THEN 100 ELSE 0]

\* ------------------------------------------------------------------------
\* encryption.ts: encryptBlob
\* ------------------------------------------------------------------------
\* The size above which encryptBlob chunks its input.  The program's value is
\* 64 * 1024 * 1024; the model scales it down with its buffers.
CHUNK_COMPRESS_THRESHOLD == 2

\* A threshold test that sends a buffer of exactly the threshold to chunks.
isLargeInclusive(size) == size >= CHUNK_COMPRESS_THRESHOLD

isLarge(size) == size > CHUNK_COMPRESS_THRESHOLD

\* Number.POSITIVE_INFINITY: greater than every loop counter.
Infinity == 2147483647

\* A chunk count that rounds down.
FloorDiv(size, chunkSize) == size \div chunkSize

\* Math.ceil(size / chunkSize).  For a negative chunkSize the quotient is
\* negative or zero and rounds towards zero; size / 0 is Infinity for a
\* positive size and NaN for size 0, which like 0 is not greater than any i.
CeilDiv(size, chunkSize) ==
    IF chunkSize > 0 THEN (size + chunkSize - 1) \div chunkSize
    ELSE IF chunkSize < 0 THEN 0 - (size \div (0 - chunkSize))
    ELSE IF size > 0 THEN Infinity ELSE 0

singleMeta(mime, wasCompressed, iv, size) ==
    << Prop(K_type, JStr(BLOB)), Prop(K_alg, JStr(ALG)), Prop(K_mime, JStr(mime)),
       Prop(K_compressed, JBool(wasCompressed)), Prop(K_single, JBool(TRUE)),
       Prop(K_iv, JStr(toBase64Url(iv))), Prop(K_size, JNum(size)) >>

chunkedMeta(mime, chunkCompressionUsed, chunkSize, size) ==
    << Prop(K_type, JStr(BLOB)), Prop(K_alg, JStr(ALG)), Prop(K_mime, JStr(mime)),
       Prop(K_compressed, JBool(chunkCompressionUsed)), Prop(K_chunked, JBool(TRUE)),
       Prop(K_chunkSize, JNum(chunkSize)), Prop(K_size, JNum(size)) >>

\* The locals of a chunked encryptBlob call.
NoEnc ==
    [size |-> 0, mime |-> <<>>, aad |-> <<>>, chunkCount |-> 0, i |-> 0,
     start |-> 0, end |-> 0, u8 |-> <<>>, data |-> <<>>, iv |-> <<>>, ct |-> <<>>,
     payloadParts |-> <<>>, chunkCompressionUsed |-> FALSE, processed |-> 0]

\* The locals of a chunked decryptToBlob call.
NoDec ==
    [compressed |-> FALSE, payloadU8 |-> <<>>, mime |-> <<>>, aad |-> <<>>,
     total |-> 0, offset |-> 0, processed |-> 0, clen |-> 0, iv |-> <<>>,
     ct |-> <<>>, pt |-> <<>>, u8 |-> <<>>, outParts |-> <<>>]

\* An ensureNotAborted that never throws.
ensureNotAbortedNever(isAborted) == FALSE

\* ensureNotAborted(signal) throws the AbortError: signal?.aborted.
ensureNotAborted(isAborted) == isAborted

\* A call that ends: nothing of it is left but its outcome.
Return(outcome) ==
    /\ op' = "idle"
    /\ pc' = "done"
    /\ enc' = NoEnc
    /\ dec' = NoDec
    /\ res' = outcome

\* encryptBlob on an input of at most the threshold: the single-shot branch,
\* with randomIv() returning iv.  signal is "none", "live" or "aborted".
encryptBlobSingle(blob, key, compress, chunkSize, mimeType, signal, iv) ==
    \E mime \in {sourceMime(blob, mimeType)}, size \in {sourceSize(blob)},
       binding \in {getCompressionBinding} :
    \E aad \in {blobAad(mime)},
       c \in {maybeCompress(getChunk(blob, 0, size), compress, binding)} :
    LET ct   == aesGcmEncrypt(key, iv, c.data, aad)
        meta == singleMeta(mime, c.compressed, iv, size)
    IN  /\ op = "idle"
        /\ ~isLarge(size)
        /\ args' = Args("encryptBlob", key, blob, compress, chunkSize, mimeType,
                        "none", signal, binding)
        /\ aborted' = (signal = "aborted")
        /\ IF ensureNotAborted(signal = "aborted")
           THEN /\ Return(Failed("Aborted"))
                /\ reports' = <<>>
                /\ UNCHANGED <<nodeBindingPromise, sealed, drawn, wire, made>>
           ELSE /\ SetsCache(compress)
                /\ sealed' = sealed \cup {SealRecord(key, iv, c.data, aad)}
                /\ drawn' = Append(drawn, iv)
                /\ reports' = <<progressInfo(0, size), progressInfo(size, size)>>
                /\ wire' = packContainer(c.compressed, FALSE, meta, ct)
                /\ made' = Made("encryptBlob", args', blob.data, mime, FALSE, "none")
                /\ Return(Outcome("ok", "none", wire', <<>>, <<>>))
        /\ UNCHANGED <<other, runtime, hasOverride, overrideBinding, unpacked, decryptCalls>>

\* encryptBlob on a larger input: the chunked branch up to its loop.
encryptBlobBegin(blob, key, compress, chunkSize, mimeType, signal) ==
    LET mime == sourceMime(blob, mimeType)
        size == sourceSize(blob)
    IN  /\ op = "idle"
        /\ isLarge(size)
        /\ op' = "encryptBlob"
        /\ args' = Args("encryptBlob", key, blob, compress, chunkSize, mimeType,
                        "none", signal, "null")
        /\ aborted' = (signal = "aborted")
        /\ enc' = [NoEnc EXCEPT !.size = size, !.mime = mime, !.aad = blobAad(mime),
                                !.chunkCount = CeilDiv(size, chunkSize)]
        /\ reports' = <<progressInfo(0, size)>>
        /\ res' = NoOutcome
        /\ pc' = IF 0 < CeilDiv(size, chunkSize) THEN "CheckCancel" ELSE "Assemble"
        /\ UNCHANGED <<other, envVars, sealed, drawn, wire, made, dec, unpacked, decryptCalls>>

\* ensureNotAborted(signal), then the window of chunk i.
encCheckCancel ==
    /\ op = "encryptBlob"
    /\ pc = "CheckCancel"
    /\ IF ensureNotAborted(aborted)
       THEN /\ Return(Failed("Aborted"))
            /\ UNCHANGED <<args, reports>>
       ELSE /\ enc' = [enc EXCEPT
                         !.start = enc.i * args.chunkSize,
                         !.end = Min(enc.i * args.chunkSize + args.chunkSize, enc.size)]
            /\ pc' = "ReadChunk"
            /\ UNCHANGED <<op, dec, args, reports, res>>
    /\ UNCHANGED <<other, envVars, sealed, drawn, wire, made, aborted, unpacked, decryptCalls>>

\* await source.getChunk(start, end)
encReadChunk ==
    /\ op = "encryptBlob"
    /\ pc = "ReadChunk"
    /\ enc' = [enc EXCEPT !.u8 = getChunk(args.blob, enc.start, enc.end)]
    /\ pc' = "Compress"
    /\ UNCHANGED <<other, envVars, sealed, drawn, wire, made, op, args, dec, aborted, reports,
                   res, unpacked, decryptCalls>>

\* await source.getChunk(start, end) of a Blob: slice.arrayBuffer() rejects.
encReadFails ==
    /\ op = "encryptBlob"
    /\ pc = "ReadChunk"
    /\ args.blob.isBlob
    /\ Return(Failed("ReadFailed"))
    /\ UNCHANGED <<other, envVars, sealed, drawn, wire, made, args, aborted, reports, unpacked,
                   decryptCalls>>

\* await maybeCompress(u8, compress); chunkCompressionUsed ||= chunk.compressed
encCompress ==
    LET binding == getCompressionBinding
        chunk   == maybeCompress(enc.u8, args.compress, binding)
    IN  /\ op = "encryptBlob"
        /\ pc = "Compress"
        /\ SetsCache(args.compress)
        /\ enc' = [enc EXCEPT
                     !.data = chunk.data,
                     !.chunkCompressionUsed = enc.chunkCompressionUsed \/ chunk.compressed]
        /\ args' = [args EXCEPT !.binding = binding]
        /\ pc' = "Encrypt"
        /\ UNCHANGED <<other, runtime, hasOverride, overrideBinding, sealed, drawn, wire, made, op,
                       dec, aborted, reports, res, unpacked, decryptCalls>>

\* randomIv(), then await aesGcmEncrypt(key, iv, data, aad)
encEncrypt(iv) ==
    /\ op = "encryptBlob"
    /\ pc = "Encrypt"
    /\ enc' = [enc EXCEPT !.iv = iv,
                          !.ct = aesGcmEncrypt(args.key, iv, enc.data, enc.aad)]
    /\ sealed' = sealed \cup {SealRecord(args.key, iv, enc.data, enc.aad)}
    /\ drawn' = Append(drawn, iv)
    /\ pc' = "AppendRecord"
    /\ UNCHANGED <<other, envVars, wire, made, op, args, dec, aborted, reports, res, unpacked, decryptCalls>>

\* payloadParts.push(u32be(ct.length), iv, ct)
encAppendRecord ==
    /\ op = "encryptBlob"
    /\ pc = "AppendRecord"
    /\ enc' = [enc EXCEPT
                 !.payloadParts = enc.payloadParts \o <<u32be(Len(enc.ct)), enc.iv, enc.ct>>]
    /\ pc' = "ReportProgress"
    /\ UNCHANGED <<other, envVars, sealed, drawn, wire, made, op, args, dec, aborted, reports,
                   res, unpacked, decryptCalls>>

\* A loop that leaves for the assembly one chunk early.
encReportProgressStopsEarly ==
    /\ op = "encryptBlob"
    /\ pc = "ReportProgress"
    /\ enc' = [enc EXCEPT !.processed = enc.end, !.i = enc.i + 1]
    /\ reports' = Append(reports, progressInfo(enc.end, enc.size))
    /\ pc' = IF enc.i + 2 < enc.chunkCount THEN "CheckCancel" ELSE "Assemble"
    /\ UNCHANGED <<other, envVars, sealed, drawn, wire, made, op, args, dec, aborted, res, unpacked, decryptCalls>>

\* processed = end; report(processed); i += 1 and the loop test
encReportProgress ==
    /\ op = "encryptBlob"
    /\ pc = "ReportProgress"
    /\ enc' = [enc EXCEPT !.processed = enc.end, !.i = enc.i + 1]
    /\ reports' = Append(reports, progressInfo(enc.end, enc.size))
    /\ pc' = IF enc.i + 1 < enc.chunkCount THEN "CheckCancel" ELSE "Assemble"
    /\ UNCHANGED <<other, envVars, sealed, drawn, wire, made, op, args, dec, aborted, res, unpacked, decryptCalls>>

\* The metadata, concatU8(...payloadParts), report(size), packContainer.
encAssemble ==
    LET meta      == chunkedMeta(enc.mime, enc.chunkCompressionUsed, args.chunkSize,
                                 enc.size)
        payloadU8 == concatU8(enc.payloadParts)
    IN  /\ op = "encryptBlob"
        /\ pc = "Assemble"
        /\ reports' = Append(reports, progressInfo(enc.size, enc.size))
        /\ wire' = packContainer(enc.chunkCompressionUsed, TRUE, meta, payloadU8)
        /\ made' = Made("encryptBlob", args, args.blob.data, enc.mime, TRUE, "none")
        /\ Return(Outcome("ok", "none", wire', <<>>, <<>>))
        /\ UNCHANGED <<other, envVars, sealed, drawn, args, aborted, unpacked, decryptCalls>>

\* The caller aborts the signal it handed to the call in progress.
abort ==
    /\ op # "idle"
    /\ args.signal # "none"
    /\ ~aborted
    /\ aborted' = TRUE
    /\ UNCHANGED <<other, envVars, sealed, drawn, wire, made, op, pc, args, enc, dec, reports,
                   res, unpacked, decryptCalls>>

\* ------------------------------------------------------------------------
\* encryption.ts: decryptToBlob
\* ------------------------------------------------------------------------
\* hasBufferSupport(): Buffer exists in Node.js.
hasBufferSupport == runtime = "node"

\* toBinaryOutput: a Blob carries the MIME type, raw bytes carry none.
toBinaryOutput(data, mime, output) ==
    Outcome("ok", "none", <<>>, data, IF output = "blob" THEN mime ELSE <<>>)

\* meta.mime || "application/octet-stream"
metaMime(meta) ==
    IF ~Truthy(meta, "mime") THEN DEFAULT_MIME
    ELSE IF meta["mime"].t = "string" THEN meta["mime"].s
    ELSE StringifyValue(meta["mime"])

\* A total that does not read meta.size.
metaTotalIgnored(meta) == 0

\* typeof meta.size === "number" ? meta.size : 0
metaTotal(meta) ==
    IF Has(meta, "size") /\ meta["size"].t = "number" THEN meta["size"].n ELSE 0
\* total || n
OrElse(total, n) == IF total # 0 THEN total ELSE n

\* The branch `!isChunked && meta.single` once the signal has been checked:
\* the outcome, and whether maybeDecompress looked the binding up.
decryptSingle(c, key, output, binding) ==
    LET mime == metaMime(c.meta)
        aad  == blobAad(mime)
        Fail(err, decrypts, used) ==
            [out |-> Failed(err), n |-> 0, decrypts |-> decrypts, used |-> used]
    IN  IF ~Truthy(c.meta, "iv") THEN Fail("MissingIv", 0, FALSE)
        ELSE LET iv == fromBase64Url(c.meta["iv"].s) IN
        IF ~iv.ok THEN Fail("InvalidCharacter", 0, FALSE)
        ELSE IF ~aesGcmDecryptOk(key, iv.u8, c.payloadU8, aad)
        THEN Fail("AuthenticationFailed", 1, FALSE)
        ELSE LET pt   == aesGcmDecrypt(key, iv.u8, c.payloadU8, aad)
                 comp == Truthy(c.meta, "compressed")
                 u8   == maybeDecompress(pt, comp, binding)
             IN  IF u8.err # "none" THEN Fail(u8.err, 1, comp)
                 ELSE [out |-> toBinaryOutput(u8.u8, mime, output), n |-> Len(u8.u8),
                       decrypts |-> 1, used |-> comp]

\* decryptToBlob(packedB64u, key, {signal, output}) of the container at hand,
\* up to the chunk loop; the single-shot branch runs to its end.
decryptToBlobBegin(key, signal, output) ==
    \E c \in {unpackContainer(wire)}, binding \in {getCompressionBinding} :
    \E single \in {decryptSingle(c, key, output, binding)} :
    LET total == metaTotal(c.meta)
        early == IF output = "buffer" /\ ~hasBufferSupport THEN "UnsupportedOutputFormat"
                 ELSE IF c.err # "none" THEN c.err
                 ELSE IF ~IsString(c.meta, "type", BLOB) THEN "WrongContentKind"
                 ELSE "none"
    IN  /\ op = "idle"
        /\ made.by # "none"
        /\ args' = Args("decryptToBlob", key, NoBlob, FALSE, 0, <<>>, output, signal,
                        binding)
        /\ aborted' = (signal = "aborted")
        /\ IF early # "none"
           THEN /\ Return(Failed(early))
                /\ reports' = <<>>
                /\ decryptCalls' = 0
                /\ UNCHANGED nodeBindingPromise
           ELSE IF ~c.isChunked /\ Truthy(c.meta, "single")
           THEN IF ensureNotAborted(signal = "aborted")
                THEN /\ Return(Failed("Aborted"))
                     /\ reports' = <<>>
                     /\ decryptCalls' = 0
                     /\ UNCHANGED nodeBindingPromise
                ELSE /\ Return(single.out)
                     /\ SetsCache(single.used)
                     /\ decryptCalls' = single.decrypts
                     /\ reports' = IF single.out.status = "ok"
                                   THEN <<progressInfo(0, total),
                                          progressInfo(OrElse(total, single.n), total)>>
                                   ELSE <<progressInfo(0, total)>>
           ELSE /\ op' = "decryptToBlob"
                /\ pc' = "CheckCancel"
                /\ dec' = [NoDec EXCEPT !.compressed = c.compressed,
                                        !.payloadU8 = c.payloadU8,
                                        !.mime = metaMime(c.meta),
                                        !.aad = blobAad(metaMime(c.meta)),
                                        !.total = total]
                /\ enc' = NoEnc
                /\ res' = NoOutcome
                /\ reports' = <<progressInfo(0, total)>>
                /\ decryptCalls' = 0
                /\ UNCHANGED nodeBindingPromise
        /\ UNCHANGED <<other, runtime, hasOverride, overrideBinding, sealed, drawn, wire, made, unpacked>>

\* while (offset < payloadU8.length) { ensureNotAborted(signal); ...
decCheckCancel ==
    /\ op = "decryptToBlob"
    /\ pc = "CheckCancel"
    /\ IF ~(dec.offset < Len(dec.payloadU8))
       THEN /\ pc' = "Finish"
            /\ UNCHANGED <<op, enc, dec, res>>
       ELSE IF ensureNotAborted(aborted)
       THEN Return(Failed("Aborted"))
       ELSE /\ pc' = "ReadRecord"
            /\ UNCHANGED <<op, enc, dec, res>>
    /\ UNCHANGED <<other, envVars, sealed, drawn, wire, made, args, aborted, reports, unpacked, decryptCalls>>

\* A check of the record's data that lets every length pass.
chunkDataMissingNever(offset, clen, length) == FALSE

\* offset + IV_BYTES + clen > payloadU8.length, offset being past the prefix
chunkDataMissing(offset, clen, length) == offset + IV_BYTES + clen > length

\* The framing of one record: the two length checks, the length, the slices.
decReadRecord ==
    LET len  == Len(dec.payloadU8)
        clen == readU32be(dec.payloadU8, dec.offset)
        o1   == dec.offset + 4
        o2   == o1 + IV_BYTES
    IN  /\ op = "decryptToBlob"
        /\ pc = "ReadRecord"
        /\ IF dec.offset + 4 > len
           THEN Return(Failed("CorruptedChunkContainer"))
           ELSE IF chunkDataMissing(o1, clen, len)
           THEN Return(Failed("CorruptedChunkContainer"))
           ELSE /\ dec' = [dec EXCEPT !.clen = clen,
                                      !.iv = subarray(dec.payloadU8, o1, o1 + IV_BYTES),
                                      !.ct = subarray(dec.payloadU8, o2, o2 + clen),
                                      !.offset = o2 + clen]
                /\ pc' = "Decrypt"
                /\ UNCHANGED <<op, enc, res>>
        /\ UNCHANGED <<other, envVars, sealed, drawn, wire, made, args, aborted, reports, unpacked, decryptCalls>>

\* await aesGcmDecrypt(key, iv, ct, aad)
decDecrypt ==
    /\ op = "decryptToBlob"
    /\ pc = "Decrypt"
    /\ IF ~aesGcmDecryptOk(args.key, dec.iv, dec.ct, dec.aad)
       THEN Return(Failed("AuthenticationFailed"))
       ELSE /\ dec' = [dec EXCEPT !.pt = aesGcmDecrypt(args.key, dec.iv, dec.ct, dec.aad)]
            /\ pc' = "Decompress"
            /\ UNCHANGED <<op, enc, res>>
    /\ decryptCalls' = decryptCalls + 1
    /\ UNCHANGED <<other, envVars, sealed, drawn, wire, made, args, aborted, reports, unpacked>>

\* await maybeDecompress(pt, compressed)
decDecompress ==
    LET binding == getCompressionBinding
        u8      == maybeDecompress(dec.pt, dec.compressed, binding)
    IN  /\ op = "decryptToBlob"
        /\ pc = "Decompress"
        /\ SetsCache(dec.compressed)
        /\ args' = [args EXCEPT !.binding = binding]
        /\ IF u8.err # "none"
           THEN Return(Failed(u8.err))
           ELSE /\ dec' = [dec EXCEPT !.u8 = u8.u8]
                /\ pc' = "Report"
                /\ UNCHANGED <<op, enc, res>>
        /\ UNCHANGED <<other, runtime, hasOverride, overrideBinding, sealed, drawn, wire, made,
                       aborted, reports, unpacked, decryptCalls>>

\* outParts.push(u8); processed += u8.length; report(min(processed, total || processed))
decReport ==
    LET processed == dec.processed + Len(dec.u8) IN
    /\ op = "decryptToBlob"
    /\ pc = "Report"
    /\ dec' = [dec EXCEPT !.outParts = Append(dec.outParts, dec.u8),
                          !.processed = processed]
    /\ reports' = Append(reports,
                         progressInfo(Min(processed, OrElse(dec.total, processed)),
                                      dec.total))
    /\ pc' = "CheckCancel"
    /\ UNCHANGED <<other, envVars, sealed, drawn, wire, made, op, args, enc, aborted, res, unpacked, decryptCalls>>

\* A last step that compares the reconstructed length with meta.size.
decFinishChecksSize ==
    LET merged == concatU8(dec.outParts) IN
    /\ op = "decryptToBlob"
    /\ pc = "Finish"
    /\ IF dec.total # Len(merged)
       THEN /\ Return(Failed("SizeMismatch"))
            /\ UNCHANGED reports
       ELSE /\ reports' = Append(reports, progressInfo(OrElse(dec.total, Len(merged)), dec.total))
            /\ Return(toBinaryOutput(merged, dec.mime, args.output))
    /\ UNCHANGED <<other, envVars, sealed, drawn, wire, made, args, aborted, unpacked, decryptCalls>>

\* concatU8(...outParts); report(total || merged.length); toBinaryOutput
decFinish ==
    LET merged == concatU8(dec.outParts) IN
    /\ op = "decryptToBlob"
    /\ pc = "Finish"
    /\ reports' = Append(reports, progressInfo(OrElse(dec.total, Len(merged)), dec.total))
    /\ Return(toBinaryOutput(merged, dec.mime, args.output))
    /\ UNCHANGED <<other, envVars, sealed, drawn, wire, made, args, aborted, unpacked, decryptCalls>>

\* ------------------------------------------------------------------------
\* Callers: containers built, altered and unpacked by hand
\* ------------------------------------------------------------------------
\* The decoded bytes of the container at hand, and where its payload starts.
wireBytes == fromBase64Url(wire).u8
payloadStart == 11 + readU32be(wireBytes, 7)
wirePayload == subarray(wireBytes, payloadStart, Len(wireBytes))

\* b with bit number bit (0 the lowest) flipped.
FlipBit(b, bit) == IF (b \div 2^bit) % 2 = 1 THEN b - 2^bit ELSE b + 2^bit

\* One bit of the payload region flips: byte pos of the payload, bit bit.
flipPayloadBit(pos, bit) ==
    /\ op = "idle"
    /\ made.by \in {"encryptString", "encryptBlob"}
    /\ made.altered = "none"
    /\ \E bin \in {wireBytes} :
          \E start \in {11 + readU32be(bin, 7)} :
             /\ start + pos < Len(bin)
             /\ wire' = toBase64Url([bin EXCEPT ![start + pos + 1] = FlipBit(@, bit)])
    /\ made' = [made EXCEPT !.altered = "payload", !.at = [pos |-> pos, bit |-> bit]]
    /\ UNCHANGED <<other, envVars, sealed, drawn, callVars, res, unpacked, decryptCalls>>

\* A caller packs a container of its own making.
packByHand(compressed, isChunked, meta, payloadU8) ==
    /\ op = "idle"
    /\ wire' = packContainer(compressed, isChunked, meta, payloadU8)
    /\ made' = Made("packContainer", NoArgs, <<>>, <<>>, isChunked, "none")
    /\ UNCHANGED <<other, envVars, sealed, drawn, callVars, res, unpacked, decryptCalls>>

\* One byte of the seven header bytes before the metadata length is overwritten.
setHeaderByte(offset, value) ==
    /\ op = "idle"
    /\ made.by # "none"
    /\ made.altered \in {"none", "header"}
    /\ offset < 7
    /\ \E bin \in {wireBytes} :
          /\ bin[offset + 1] # value
          /\ wire' = toBase64Url([bin EXCEPT ![offset + 1] = value])
    /\ made' = [made EXCEPT !.altered = "header"]
    /\ UNCHANGED <<other, envVars, sealed, drawn, callVars, res, unpacked, decryptCalls>>

\* The metadata length field is overwritten with n.
setMetaLen(n) ==
    /\ op = "idle"
    /\ made.by # "none"
    /\ made.altered = "none"
    /\ \E bin \in {wireBytes} :
          /\ readU32be(bin, 7) # n
          /\ wire' = toBase64Url(subarray(bin, 0, 7) \o u32be(n)
                                 \o subarray(bin, 11, Len(bin)))
    /\ made' = [made EXCEPT !.altered = "metaLen"]
    /\ UNCHANGED <<other, envVars, sealed, drawn, callVars, res, unpacked, decryptCalls>>

\* The container loses its last n bytes.
truncate(n) ==
    /\ op = "idle"
    /\ made.by # "none"
    /\ made.altered = "none"
    /\ n >= 1
    /\ \E bin \in {wireBytes} :
          /\ n <= Len(bin)
          /\ wire' = toBase64Url(subarray(bin, 0, Len(bin) - n))
    /\ made' = [made EXCEPT !.altered = "truncated"]
    /\ UNCHANGED <<other, envVars, sealed, drawn, callVars, res, unpacked, decryptCalls>>

\* unpackContainer(b64u) of the container at hand, called directly.
unpack ==
    /\ op = "idle"
    /\ made.by # "none"
    /\ unpacked' = unpackContainer(wire)
    /\ UNCHANGED <<other, envVars, sealed, drawn, wire, made, callVars, res, decryptCalls>>

\* ------------------------------------------------------------------------
\* Initial state and inputs
\* ------------------------------------------------------------------------
NotUnpacked == UnpackError("notCalled")

\* A caller's container at hand and its call.
TheCall ==
    [wire |-> wire, made |-> made, op |-> op, pc |-> pc, args |-> args, enc |-> enc,
     dec |-> dec, aborted |-> aborted, reports |-> reports, res |-> res,
     unpacked |-> unpacked, decryptCalls |-> decryptCalls]
NoCall ==
    [wire |-> <<>>, made |-> NotMade, op |-> "idle", pc |-> "done", args |-> NoArgs,
     enc |-> NoEnc, dec |-> NoDec, aborted |-> FALSE, reports |-> <<>>,
     res |-> NoOutcome, unpacked |-> NotUnpacked, decryptCalls |-> 0]

\* A switch that leaves the payload accumulator and the counters of the
\* encryption in place: the two callers share them.
switchSharingAccumulator ==
    /\ other' = [TheCall EXCEPT !.enc = other.enc]
    /\ wire' = other.wire
    /\ made' = other.made
    /\ op' = other.op
    /\ pc' = other.pc
    /\ args' = other.args
    /\ enc' = enc
    /\ dec' = other.dec
    /\ aborted' = other.aborted
    /\ reports' = other.reports
    /\ res' = other.res
    /\ unpacked' = other.unpacked
    /\ decryptCalls' = other.decryptCalls
    /\ UNCHANGED <<envVars, sealed, drawn>>

\* The event loop turns to the other caller: its call goes on from the await
\* it stopped at, and the call that ran until now waits at its own.  The
\* module's variables, the AEAD capability and the random generator are the
\* same for both.
switch ==
    /\ other' = TheCall
    /\ wire' = other.wire
    /\ made' = other.made
    /\ op' = other.op
    /\ pc' = other.pc
    /\ args' = other.args
    /\ enc' = other.enc
    /\ dec' = other.dec
    /\ aborted' = other.aborted
    /\ reports' = other.reports
    /\ res' = other.res
    /\ unpacked' = other.unpacked
    /\ decryptCalls' = other.decryptCalls
    /\ UNCHANGED <<envVars, sealed, drawn>>

InitIn(runtimes) ==
    /\ runtime \in runtimes
    /\ hasOverride = FALSE
    /\ overrideBinding = "null"
    /\ nodeBindingPromise = "unset"
    /\ sealed = {}
    /\ drawn = <<>>
    /\ wire = <<>>
    /\ made = NotMade
    /\ op = "idle"
    /\ pc = "done"
    /\ args = NoArgs
    /\ enc = NoEnc
    /\ dec = NoDec
    /\ aborted = FALSE
    /\ reports = <<>>
    /\ res = NoOutcome
    /\ unpacked = NotUnpacked
    /\ decryptCalls = 0
    /\ other = NoCall

Runtimes == {"browser", "node", "bare"}
Init == InitIn(Runtimes)

\* All sequences over S of length at most n.
SeqsUpTo(S, n) == UNION {[1..k -> S] : k \in 0..n}

\* Keys are named by number.
Keys == {1, 2}
\* The values randomIv() returns: IvOf(n) for distinct n are distinct.
IvOf(n) == [j \in 1..IV_BYTES |-> (37 * n + j) % 256]
IVs == {IvOf(0), IvOf(1)}
Bindings == {"gzip", "reverse", "null"}

\* randomBytes(length): a new array of that length, filled by getRandomValues
\* with the bytes fill.
randomBytes(length, fill) == [j \in 1..length |-> fill[j]]

\* A randomIv of eight bytes.
randomIvOfEight(fill) == randomBytes(8, fill)

\* randomIv(): randomBytes(IV_BYTES)
randomIv(fill) == randomBytes(IV_BYTES, fill)

\* ------------------------------------------------------------------------
\* Text: encryptString, decryptToString, the compression override
\* ------------------------------------------------------------------------
MaxTextLen == 1
\* 'a', U+20AC (three bytes of UTF-8), U+FEFF
TextUnits == {97, 8364, 65279}
Strings == SeqsUpTo(TextUnits, MaxTextLen)

NextText ==
    \/ \E s \in Strings, k \in Keys, c \in BOOLEAN, iv \in IVs :
          sealed = {} /\ encryptString(s, k, c, iv)
    \/ \E k \in Keys : decryptToString(k)
    \/ \E b \in Bindings : op = "idle" /\ setCompressionBindingOverride(b)
    \/ op = "idle" /\ clearCompressionBindingOverride

SpecText == Init /\ [][NextText]_vars

\* ------------------------------------------------------------------------
\* Binary: encryptBlob and decryptToBlob, single-shot and chunked
\* ------------------------------------------------------------------------
MaxLen == 5
MaxChunkSize == 2

\* Byte buffers of every length up to MaxLen: the first bytes of a fixed
\* pattern, and the zero-filled buffer of the greatest length.
Pattern == [i \in 1..MaxLen |-> (83 * i + 170) % 256]
Buffer(u8) == [isBlob |-> FALSE, type |-> <<>>, data |-> u8]
Buffers ==
    {Buffer(subarray(Pattern, 0, n)) : n \in 0..MaxLen}
    \cup {Buffer([i \in 1..MaxLen |-> 0])}
ChunkSizes == 1..MaxChunkSize
\* No MIME type given, and "a/b".
MimeTypes == {<<>>, <<97, 47, 98>>}
Outputs == {"blob", "uint8array", "buffer"}

\* One encryptBlob call, with the IVs randomIv() hands out in turn, ...
EncryptBlobCalls ==
    \/ \E b \in Buffers, k \in Keys, c \in BOOLEAN, n \in ChunkSizes, m \in MimeTypes :
          encryptBlobSingle(b, k, c, n, m, "none", IvOf(0))
    \/ \E b \in Buffers, k \in Keys, c \in BOOLEAN, n \in ChunkSizes, m \in MimeTypes :
          encryptBlobBegin(b, k, c, n, m, "none")
EncryptBlobSteps ==
    \/ encCheckCancel
    \/ encReadChunk
    \/ encCompress
    \/ encEncrypt(IvOf(enc.i))
    \/ encAppendRecord
    \/ encReportProgress
    \/ encAssemble
\* ... and the steps of a decryptToBlob call.
DecryptBlobSteps ==
    \/ decCheckCancel
    \/ decReadRecord
    \/ decDecrypt
    \/ decDecompress
    \/ decReport
    \/ decFinish

NextBlob ==
    \/ sealed = {} /\ EncryptBlobCalls
    \/ EncryptBlobSteps
    \/ \E k \in Keys, o \in Outputs :
          args.fn = "encryptBlob" /\ res.status = "ok" /\ decryptToBlobBegin(k, "none", o)
    \/ DecryptBlobSteps

SpecBlob == InitIn({"node", "bare"}) /\ [][NextBlob]_vars

\* ------------------------------------------------------------------------
\* Tampering: one bit of the payload flips between encryption and decryption
\* ------------------------------------------------------------------------
\* A buffer for the single-shot branch and one for the chunked branch.
TamperBuffers ==
    {Buffer(subarray(Pattern, 0, n)) : n \in {1, CHUNK_COMPRESS_THRESHOLD + 1}}
Bits == 0..7

NextTamper ==
    \/ \E s \in Strings, c \in BOOLEAN :
          sealed = {} /\ encryptString(s, 1, c, IvOf(0))
    \/ \E b \in TamperBuffers, c \in BOOLEAN :
          sealed = {} /\ encryptBlobSingle(b, 1, c, MaxChunkSize, <<>>, "none", IvOf(0))
    \/ \E b \in TamperBuffers, c \in BOOLEAN :
          sealed = {} /\ encryptBlobBegin(b, 1, c, MaxChunkSize, <<>>, "none")
    \/ EncryptBlobSteps
    \/ /\ res.status = "ok"
       /\ made.altered = "none"
       /\ args.fn \in {"encryptString", "encryptBlob"}
       /\ \E pos \in 0..(Len(wirePayload) - 1), bit \in Bits : flipPayloadBit(pos, bit)
    \/ made.by = "encryptString" /\ args.fn = "encryptString"
       /\ decryptToString(made.call.key)
    \/ made.by = "encryptBlob" /\ args.fn = "encryptBlob" /\ res.status = "ok"
       /\ decryptToBlobBegin(made.call.key, "none", "uint8array")
    \/ DecryptBlobSteps

SpecTamper == InitIn({"node"}) /\ [][NextTamper]_vars

\* ------------------------------------------------------------------------
\* Altered and hand-built containers given to unpackContainer
\* ------------------------------------------------------------------------
\* The metadata of the container the test "detects corrupted chunk metadata"
\* builds, with the type of the caller's choice.
brokenMeta(type) ==
    << Prop(K_type, JStr(type)), Prop(K_alg, JStr(ALG)), Prop(K_mime, JStr(DEFAULT_MIME)),
       Prop(K_chunked, JBool(TRUE)), Prop(K_chunkSize, JNum(1024)), Prop(K_size, JNum(4096)) >>
\* new Uint8Array(n)
Zeros(n) == [i \in 1..n |-> 0]

HeaderValues == {2}
MetaLenDeltas == {0 - 1, 1, 2 * TAG_BYTES, 65536}

NextUnpack ==
    \/ \E s \in Strings, c \in BOOLEAN :
          sealed = {} /\ made.by = "none" /\ encryptString(s, 1, c, IvOf(0))
    \/ \E isChunked \in BOOLEAN, n \in {0, 4} :
          made.by = "none" /\ packByHand(FALSE, isChunked, brokenMeta(BLOB), Zeros(n))
    \/ /\ unpacked = NotUnpacked
       /\ \E offset \in 0..6, value \in HeaderValues : setHeaderByte(offset, value)
    \/ /\ unpacked = NotUnpacked
       /\ made.altered = "none"
       /\ made.by # "none"
       /\ \E d \in MetaLenDeltas : setMetaLen(Max(0, readU32be(wireBytes, 7) + d))
    \/ /\ unpacked = NotUnpacked
       /\ made.altered = "none"
       /\ made.by # "none"
       /\ \E n \in 1..Len(wireBytes) : truncate(n)
    \/ unpacked = NotUnpacked /\ unpack

SpecUnpack == InitIn({"node"}) /\ [][NextUnpack]_vars

\* ------------------------------------------------------------------------
\* Containers of either kind, and hand-built ones, given to both decryptors
\* ------------------------------------------------------------------------
NextForge ==
    \/ \E s \in Strings, c \in BOOLEAN :
          sealed = {} /\ made.by = "none" /\ encryptString(s, 1, c, IvOf(0))
    \/ \E b \in TamperBuffers, c \in BOOLEAN :
          /\ sealed = {}
          /\ made.by = "none"
          /\ encryptBlobSingle(b, 1, c, MaxChunkSize, <<>>, "none", IvOf(0))
    \/ \E b \in TamperBuffers, c \in BOOLEAN :
          /\ sealed = {}
          /\ made.by = "none"
          /\ encryptBlobBegin(b, 1, c, MaxChunkSize, <<>>, "none")
    \/ EncryptBlobSteps
    \/ \E isChunked \in BOOLEAN, type \in {TEXT, BLOB}, n \in 0..(4 + IV_BYTES) :
          /\ made.by = "none"
          /\ op = "idle"
          /\ args.fn = "none"
          /\ packByHand(FALSE, isChunked, brokenMeta(type), Zeros(n))
    \/ args.fn \notin {"decryptToString", "decryptToBlob"} /\ decryptToString(1)
    \/ \E o \in Outputs :
          /\ args.fn \notin {"decryptToString", "decryptToBlob"}
          /\ decryptToBlobBegin(1, "none", o)
    \/ DecryptBlobSteps

SpecForge == InitIn({"node", "bare"}) /\ [][NextForge]_vars

\* ------------------------------------------------------------------------
\* Cancellation: calls with an AbortSignal, which the caller may abort
\* ------------------------------------------------------------------------
Signals == {"live", "aborted"}

NextCancel ==
    \/ \E b \in Buffers, c \in BOOLEAN, s \in Signals :
          sealed = {} /\ encryptBlobSingle(b, 1, c, 1, <<>>, s, IvOf(0))
    \/ \E b \in Buffers, c \in BOOLEAN, n \in ChunkSizes, s \in Signals :
          sealed = {} /\ encryptBlobBegin(b, 1, c, n, <<>>, s)
    \/ EncryptBlobSteps
    \/ abort
    \/ \E s \in Signals :
          /\ args.fn = "encryptBlob"
          /\ res.status = "ok"
          /\ decryptToBlobBegin(1, s, "uint8array")
    \/ DecryptBlobSteps

SpecCancel == InitIn({"node"}) /\ [][NextCancel]_vars

\* ------------------------------------------------------------------------
\* Properties
\* ------------------------------------------------------------------------
\* The last call was decryptToString, on the container exactly as
\* encryptString returned it, with the key and the compression binding of
\* that encryption.
TextRoundTripCase ==
    /\ made.by = "encryptString"
    /\ made.altered = "none"
    /\ args.fn = "decryptToString"
    /\ args.key = made.call.key
    /\ args.binding = made.call.binding

\* C1: text round trip.  For every string, every key and both settings of
\* compress, decryptToString of what encryptString returned, under the same
\* key and the same compression binding, returns exactly the string.
C1_TextRoundTrip ==
    TextRoundTripCase => res = Outcome("ok", "none", made.plain, <<>>, <<>>)

\* The last call was decryptToBlob and has ended, on the container exactly
\* as encryptBlob returned it, with the key and the compression binding of
\* that encryption, asking for an output the environment has.
BlobRoundTripCase ==
    /\ made.by = "encryptBlob"
    /\ made.altered = "none"
    /\ args.fn = "decryptToBlob"
    /\ op = "idle"
    /\ args.key = made.call.key
    /\ args.binding = made.call.binding
    /\ (args.output = "buffer" => hasBufferSupport)

\* The MIME type a caller expects back: the one given, or the default.
ExpectedMime(mimeType) == IF mimeType = <<>> THEN DEFAULT_MIME ELSE mimeType

\* C2: single-shot blob round trip.  For every byte buffer of at most the
\* threshold (the empty one too), every key and every MIME type, decryptToBlob
\* of what encryptBlob returned gives back exactly the bytes, and a Blob
\* output carries the MIME type given (application/octet-stream when none).
C2_SingleShotRoundTrip ==
    (BlobRoundTripCase /\ Len(made.plain) <= CHUNK_COMPRESS_THRESHOLD)
    => /\ res.status = "ok"
       /\ res.bytes = made.plain
       /\ (args.output = "blob" => res.mime = ExpectedMime(made.call.mimeType))

\* C2 happens: a buffer of exactly the threshold, compressed, with a MIME type
\* of its own, has come back as a Blob; so has an empty one, elsewhere.
C2_Witness ==
    /\ BlobRoundTripCase
    /\ Len(made.plain) = CHUNK_COMPRESS_THRESHOLD
    /\ made.call.mimeType # <<>>
    /\ made.call.compress
    /\ made.call.binding = "gzip"
    /\ args.output = "blob"
    /\ res.status = "ok"
    /\ res.bytes = made.plain

\* C3: chunked blob round trip.  For every buffer longer than the threshold
\* and every chunkSize >= 1, decryptToBlob of what encryptBlob returned is a
\* buffer of the same length and content.
C3_ChunkedRoundTrip ==
    (BlobRoundTripCase /\ Len(made.plain) > CHUNK_COMPRESS_THRESHOLD)
    => /\ res.status = "ok"
       /\ Len(res.bytes) = Len(made.plain)
       /\ res.bytes = made.plain

\* C3 happens: a buffer whose length is no multiple of chunkSize, in three
\* chunks or more, has come back.
C3_Witness ==
    /\ BlobRoundTripCase
    /\ made.chunked
    /\ Len(made.plain) % made.call.chunkSize # 0
    /\ Len(made.plain) > 2 * made.call.chunkSize
    /\ res.status = "ok"
    /\ res.bytes = made.plain

\* The records a chunked payload reads as from byte offset on: the length
\* prefix, the IV and the ciphertext of each, and the offset where it ends.
RECURSIVE PayloadRecords(_, _)
PayloadRecords(payloadU8, offset) ==
    IF offset >= Len(payloadU8) THEN <<>>
    ELSE LET clen == readU32be(payloadU8, offset)
             rec  == [prefix |-> subarray(payloadU8, offset, offset + 4),
                      iv |-> subarray(payloadU8, offset + 4, offset + 4 + IV_BYTES),
                      ct |-> subarray(payloadU8, offset + 4 + IV_BYTES,
                                      offset + 4 + IV_BYTES + clen),
                      end |-> offset + 4 + IV_BYTES + clen]
         IN  <<rec>> \o PayloadRecords(payloadU8, rec.end)

\* encryptBlob has just returned the container at hand.
EncryptBlobReturned ==
    /\ made.by = "encryptBlob"
    /\ made.altered = "none"
    /\ args.fn = "encryptBlob"
    /\ op = "idle"
    /\ res.status = "ok"

\* What the capability sealed under this IV into this ciphertext, if anything.
SealedAs(iv, ct) == {r \in sealed : r.iv = iv /\ r.ct = ct}

\* C5: strategy threshold.  encryptBlob takes the single-shot path iff the
\* size is at most the threshold, whatever chunkSize is.  A single-shot result
\* has the chunked flag clear, meta.single = true, its IV in meta.iv and one
\* ciphertext with its tag as payload; a chunked result has the chunked flag
\* set, meta.chunked = true, meta.chunkSize set, no meta.iv, and every IV
\* inside the payload records.
C5_StrategyThreshold ==
    EncryptBlobReturned =>
        LET c     == unpackContainer(wire)
            small == Len(made.plain) <= CHUNK_COMPRESS_THRESHOLD
            recs  == PayloadRecords(c.payloadU8, 0)
        IN  /\ c.err = "none"
            /\ made.chunked = ~small
            /\ small =>
                 /\ ~c.isChunked
                 /\ Has(c.meta, "single") /\ c.meta["single"] = JBool(TRUE)
                 /\ ~Has(c.meta, "chunked")
                 /\ Has(c.meta, "iv") /\ c.meta["iv"].t = "string"
                 /\ fromBase64Url(c.meta["iv"].s).ok
                 /\ Len(fromBase64Url(c.meta["iv"].s).u8) = IV_BYTES
                 /\ SealedAs(fromBase64Url(c.meta["iv"].s).u8, c.payloadU8) # {}
                 /\ \A r \in SealedAs(fromBase64Url(c.meta["iv"].s).u8, c.payloadU8) :
                       Len(c.payloadU8) = Len(r.pt) + TAG_BYTES
            /\ ~small =>
                 /\ c.isChunked
                 /\ Has(c.meta, "chunked") /\ c.meta["chunked"] = JBool(TRUE)
                 /\ Has(c.meta, "chunkSize")
                 /\ c.meta["chunkSize"] = JNum(made.call.chunkSize)
                 /\ ~Has(c.meta, "iv")
                 /\ ~Has(c.meta, "single")
                 /\ Len(recs) >= 1
                 /\ \A j \in 1..Len(recs) :
                       /\ Len(recs[j].iv) = IV_BYTES
                       /\ SealedAs(recs[j].iv, recs[j].ct) # {}

\* C5 happens: encryptBlob has returned a container for a buffer of exactly
\* the threshold with the greatest chunkSize (and for longer ones, elsewhere).
C5_Witness ==
    /\ EncryptBlobReturned
    /\ Len(made.plain) = CHUNK_COMPRESS_THRESHOLD
    /\ made.call.chunkSize = MaxChunkSize
    /\ ~made.chunked
    /\ ~unpackContainer(wire).isChunked

\* The window of chunk i of a buffer of the given size.
WindowStart(i, chunkSize) == i * chunkSize
WindowEnd(i, chunkSize, size) ==
    IF (i + 1) * chunkSize < size THEN (i + 1) * chunkSize ELSE size

\* C6: chunk count and windows.  In the chunked path with chunkSize >= 1,
\* encryptBlob reads the consecutive windows [i*chunkSize, min((i+1)*chunkSize,
\* size)), which cover [0, size) exactly, and the payload holds exactly
\* ceil(size / chunkSize) records in input order, each a 4-byte big-endian
\* ciphertext length, a 12-byte IV and the ciphertext with its tag.
C6_ChunkWindows ==
    /\ (op = "encryptBlob" /\ pc \in {"ReadChunk", "Compress", "Encrypt",
                                        "AppendRecord", "ReportProgress"})
       => /\ enc.start = WindowStart(enc.i, args.chunkSize)
          /\ enc.end = WindowEnd(enc.i, args.chunkSize, Len(args.blob.data))
          \* consecutive: the window starts where the last one ended
          /\ enc.start = enc.processed
          /\ enc.start < enc.end
          /\ Len(enc.payloadParts) = 3 * enc.i + (IF pc = "ReportProgress" THEN 3 ELSE 0)
    /\ (op = "encryptBlob" /\ pc \in {"Compress", "Encrypt", "AppendRecord",
                                        "ReportProgress"})
       => enc.u8 = SubSeq(args.blob.data, enc.start + 1, enc.end)
    /\ (op = "encryptBlob" /\ pc = "Assemble")
       => enc.processed = Len(args.blob.data)
    /\ (EncryptBlobReturned /\ made.chunked)
       => LET c    == unpackContainer(wire)
              recs == PayloadRecords(c.payloadU8, 0)
              n    == Len(recs)
              size == Len(made.plain)
              cs   == made.call.chunkSize
          IN  \* n = ceil(size / chunkSize)
              /\ (n - 1) * cs < size
              /\ size <= n * cs
              /\ recs[n].end = Len(c.payloadU8)
              /\ \A j \in 1..n :
                    /\ recs[j].prefix = u32be(Len(recs[j].ct))
                    /\ Len(recs[j].iv) = IV_BYTES
                    /\ Len(recs[j].ct) >= TAG_BYTES
                    /\ SealedAs(recs[j].iv, recs[j].ct) # {}
                    /\ \A r \in SealedAs(recs[j].iv, recs[j].ct) :
                          /\ r.key = made.call.key
                          /\ Len(recs[j].ct) = Len(r.pt) + TAG_BYTES
                          /\ r.pt = maybeCompress(
                                      SubSeq(made.plain, WindowStart(j - 1, cs) + 1,
                                             WindowEnd(j - 1, cs, size)),
                                      made.call.compress, made.call.binding).data

\* C6 happens: a container of full records and one partial record, three or
\* more in all, has been returned.
C6_Witness ==
    /\ EncryptBlobReturned
    /\ made.chunked
    /\ Len(made.plain) % made.call.chunkSize # 0
    /\ Len(PayloadRecords(unpackContainer(wire).payloadU8, 0)) >= 3
    /\ Len(PayloadRecords(unpackContainer(wire).payloadU8, 0)) * made.call.chunkSize
       > Len(made.plain)

\* A decryption of the matching kind has ended, on a container that came out
\* of encryptString or encryptBlob and had one bit of its payload flipped,
\* under the key of the encryption.
TamperCase ==
    /\ made.by \in {"encryptString", "encryptBlob"}
    /\ made.altered = "payload"
    /\ op = "idle"
    /\ args.fn = (IF made.by = "encryptString" THEN "decryptToString" ELSE "decryptToBlob")
    /\ args.key = made.call.key

\* C4 as stated: tamper detection.  Flipping any single bit anywhere in the
\* payload region (length prefixes and IVs of a chunked payload included) makes
\* decryption fail with AuthenticationFailed.
C4_TamperAuthenticationFailed ==
    TamperCase => res = Failed("AuthenticationFailed")

\* The flipped bit lies in the length prefix of a record, and the length as
\* altered runs past the end of the payload.
FlipOverrunsPayload ==
    /\ made.chunked
    /\ LET flipped  == wirePayload
           original == [flipped EXCEPT ![made.at.pos + 1] = FlipBit(@, made.at.bit)]
           recs     == PayloadRecords(original, 0)
       IN  \E j \in 1..Len(recs) :
              LET start == recs[j].end - Len(recs[j].ct) - IV_BYTES - 4 IN
              /\ made.at.pos >= start
              /\ made.at.pos < start + 4
              /\ start + 4 + IV_BYTES + readU32be(flipped, start) > Len(flipped)

\* C4 amended: after any single bit of the payload region has flipped,
\* decryption fails and returns no plaintext: with CorruptedChunkContainer when
\* the bit lies in a chunk's length prefix and the altered length runs past the
\* end of the payload, with AuthenticationFailed in every other case.
C4_TamperDetected ==
    TamperCase =>
        /\ res.status = "error"
        /\ res.bytes = <<>>
        /\ res.text = <<>>
        /\ res.err = (IF FlipOverrunsPayload THEN "CorruptedChunkContainer"
                      ELSE "AuthenticationFailed")

\* C4 happens both ways: a flipped length prefix of the second record has
\* ended decryption with CorruptedChunkContainer after the first record was
\* decrypted (a flipped ciphertext bit ends it with AuthenticationFailed).
C4_Witness ==
    /\ TamperCase
    /\ made.chunked
    /\ res.err = "CorruptedChunkContainer"
    /\ decryptCalls = 1

\* unpackContainer has been called on the container at hand as it is now.
UnpackCalled == made.by # "none" /\ unpacked # NotUnpacked
WrongMagic   == subarray(wireBytes, 0, 4) # MAGIC
WrongVersion == Len(wireBytes) <= 4 \/ wireBytes[5] # VERSION
WrongAlgId   == Len(wireBytes) <= 6 \/ wireBytes[7] # ALG_ID

\* C7: format validation.  unpackContainer checks the magic, then the version,
\* then the algorithm id, each before any metadata byte is parsed: a wrong
\* magic fails with UnrecognizedFormat, a wrong version under a right magic
\* with UnsupportedVersion, a wrong algorithm id under a right magic and
\* version with UnsupportedAlgorithm, and a container with all three right
\* fails with none of the three.
C7_FormatValidation ==
    UnpackCalled =>
        /\ unpacked.err = (IF WrongMagic THEN "UnrecognizedFormat"
                           ELSE IF WrongVersion THEN "UnsupportedVersion"
                           ELSE IF WrongAlgId THEN "UnsupportedAlgorithm"
                           ELSE unpacked.err)
        /\ (WrongMagic \/ WrongVersion \/ WrongAlgId) => ~unpacked.parsed
        /\ unpacked.err \in {"UnrecognizedFormat", "UnsupportedVersion", "UnsupportedAlgorithm"}
              => (WrongMagic \/ WrongVersion \/ WrongAlgId)

\* C7 happens: a container whose version and algorithm id were both
\* overwritten, under an intact magic, was rejected for its version.
C7_Witness ==
    /\ UnpackCalled
    /\ made.altered = "header"
    /\ ~WrongMagic
    /\ WrongVersion
    /\ WrongAlgId
    /\ unpacked.err = "UnsupportedVersion"
    /\ ~unpacked.parsed

\* C8: truncated container.  Whenever the metadata length in the header
\* exceeds the number of bytes that remain after the header, unpackContainer
\* fails with TruncatedContainer, and it has parsed no metadata.
C8_TruncatedContainer ==
    ( /\ UnpackCalled
      /\ ~(WrongMagic \/ WrongVersion \/ WrongAlgId)
      /\ Len(wireBytes) >= 11
      /\ readU32be(wireBytes, 7) > Len(wireBytes) - 11 )
    => (unpacked.err = "TruncatedContainer" /\ ~unpacked.parsed)

\* A call of the decryptor fn on the container at hand has ended.
Ended(fn) == made.by # "none" /\ op = "idle" /\ args.fn = fn
\* The container at hand is well-formed and its metadata type is type.
ContainerOfType(type) ==
    LET c == unpackContainer(wire)
    IN  c.err = "none" /\ "type" \in DOMAIN c.meta /\ c.meta["type"] = JStr(type)
\* The container at hand is well-formed and its chunked flag is set.
ContainerChunked ==
    LET c == unpackContainer(wire) IN c.err = "none" /\ c.isChunked

\* C9 as stated: cross-kind rejection.  decryptToString fails with
\* WrongContentKind on every container whose metadata type is blob (the
\* rejection of a chunked container, which has a message of its own, counted
\* as one) and fails on every container whose chunked flag is set;
\* decryptToBlob fails with WrongContentKind on every container whose
\* metadata type is text; each before any AEAD decryption is attempted.
C9_CrossKindRejection ==
    /\ (Ended("decryptToString") /\ ContainerOfType(BLOB))
          => /\ res.status = "error"
             /\ res.err \in {"WrongContentKind", "ChunkedContent"}
             /\ decryptCalls = 0
    /\ (Ended("decryptToString") /\ ContainerChunked)
          => (res.status = "error" /\ decryptCalls = 0)
    /\ (Ended("decryptToBlob") /\ ContainerOfType(TEXT))
          => (res = Failed("WrongContentKind") /\ decryptCalls = 0)

\* C9 amended: decryptToString fails on every container whose chunked flag is
\* set with the rejection that names decryptToBlob, whatever the metadata
\* type, and with WrongContentKind on every unchunked container whose metadata
\* type is blob; decryptToBlob fails with WrongContentKind on every container
\* whose metadata type is text when the requested output is available, and
\* with UnsupportedOutputFormat when a Buffer is requested where there is
\* none; each before any AEAD decryption is attempted.
C9_CrossKindRejectionByOutput ==
    /\ (Ended("decryptToString") /\ ContainerChunked)
          => (res = Failed("ChunkedContent") /\ decryptCalls = 0)
    /\ (Ended("decryptToString") /\ ContainerOfType(BLOB) /\ ~ContainerChunked)
          => (res = Failed("WrongContentKind") /\ decryptCalls = 0)
    /\ (Ended("decryptToBlob") /\ ContainerOfType(TEXT))
          => /\ res = Failed(IF args.output = "buffer" /\ runtime # "node"
                             THEN "UnsupportedOutputFormat" ELSE "WrongContentKind")
             /\ decryptCalls = 0

\* C9 happens: decryptToBlob, asked for a Buffer where there is none, has
\* rejected a container that encryptString made.
C9_Witness ==
    /\ Ended("decryptToBlob")
    /\ made.by = "encryptString"
    /\ ContainerOfType(TEXT)
    /\ args.output = "buffer"
    /\ runtime = "bare"
    /\ res = Failed("UnsupportedOutputFormat")

\* C10: chunk corruption.  On every container with the chunked flag set,
\* metadata type blob and a payload of fewer than 4 + IV_BYTES bytes,
\* decryptToBlob (asked for an output the environment has) fails with
\* CorruptedChunkContainer and returns no result.
C10_ChunkCorruption ==
    ( /\ Ended("decryptToBlob")
      /\ ~(args.output = "buffer" /\ runtime # "node")
      /\ ContainerChunked
      /\ ContainerOfType(BLOB)
      /\ Len(wirePayload) < 4 + IV_BYTES )
    => res = Failed("CorruptedChunkContainer")

\* A step of a call with its signal already set, seen from the state before:
\* the check before a unit of the chunk loops, ...
AtCheckWithSignalSet ==
    /\ aborted
    /\ pc = "CheckCancel"
    /\ \/ op = "encryptBlob"
       \/ op = "decryptToBlob" /\ dec.offset < Len(dec.payloadU8)
\* ... or a call of the single-shot branch of encryptBlob, or of decryptToBlob
\* on a single-shot container of encryptBlob, with an aborted signal.
SingleShotCallWithSignalSet ==
    /\ op = "idle"
    /\ op' = "idle"
    /\ args'.signal = "aborted"
    /\ \/ args'.fn = "encryptBlob"
       \/ args'.fn = "decryptToBlob" /\ made.by = "encryptBlob" /\ ~made.chunked
                                     /\ made.altered = "none"

\* C11: cancellation.  encryptBlob and decryptToBlob check the signal before
\* each unit; with the signal set at that check the call rejects with Aborted,
\* nothing is read, compressed, encrypted or decrypted for that unit or a later
\* one, and no container or bytes are returned: once the signal is set no
\* further unit is started.
C11_Cancellation ==
    [][ /\ (AtCheckWithSignalSet \/ SingleShotCallWithSignalSet)
           => /\ op' = "idle"
              /\ res' = Failed("Aborted")
              /\ sealed' = sealed
              /\ wire' = wire
              /\ made' = made
              /\ reports' = IF op = "idle" THEN <<>> ELSE reports
              /\ decryptCalls' = IF op = "idle" THEN 0 ELSE decryptCalls
        /\ (aborted /\ op # "idle")
           => /\ ~(pc = "CheckCancel" /\ pc' \in {"ReadChunk", "ReadRecord"})
              /\ (pc' = "CheckCancel" => op' = op)
      ]_vars

\* C11 happens: a chunked encryptBlob, whose signal was aborted while its
\* first chunk was in progress, completed that chunk and then rejected.
C11_Witness ==
    /\ args.fn = "encryptBlob"
    /\ args.signal = "live"
    /\ aborted
    /\ op = "idle"
    /\ res = Failed("Aborted")
    /\ Cardinality(sealed) = 1
    /\ Len(reports) = 2

\* ------------------------------------------------------------------------
\* Failing units: a Blob that cannot be read, a flipped bit, a binding that
\* is gone or differs when the container is decrypted
\* ------------------------------------------------------------------------
BlobOf(type, u8) == [isBlob |-> TRUE, type |-> type, data |-> u8]
\* The buffers of the tampering runs and a Blob of more than two chunks.
FailInputs ==
    TamperBuffers \cup {BlobOf(<<>>, subarray(Pattern, 0, CHUNK_COMPRESS_THRESHOLD + 2))}
\* The lowest bit of a byte.
FailBits == {0}
\* An override that compresses differently, and one that disables compression.
FailBindings == {"reverse", "null"}

NextFail ==
    \/ \E b \in FailBindings :
          /\ op = "idle"
          /\ ~hasOverride
          /\ made.altered = "none"
          /\ args.fn \in {"none", "encryptBlob"}
          /\ setCompressionBindingOverride(b)
    \/ \E b \in FailInputs, c \in BOOLEAN :
          sealed = {} /\ encryptBlobSingle(b, 1, c, 1, <<>>, "none", IvOf(0))
    \/ \E b \in FailInputs, c \in BOOLEAN, n \in ChunkSizes :
          sealed = {} /\ encryptBlobBegin(b, 1, c, n, <<>>, "none")
    \/ EncryptBlobSteps
    \/ encReadFails
    \/ /\ res.status = "ok"
       /\ args.fn = "encryptBlob"
       /\ \E pos \in 0..(Len(wirePayload) - 1), bit \in FailBits : flipPayloadBit(pos, bit)
    \/ /\ res.status = "ok"
       /\ args.fn = "encryptBlob"
       /\ made.altered = "none"
       /\ op = "idle"
       /\ hasOverride
       /\ clearCompressionBindingOverride
    \/ made.by = "encryptBlob" /\ args.fn # "decryptToBlob"
                               /\ decryptToBlobBegin(1, "none", "uint8array")
    \/ DecryptBlobSteps

SpecFail == InitIn({"node"}) /\ [][NextFail]_vars

\* A unit of a chunk loop fails, seen from the state before the step: the
\* read of a chunk does not deliver, the framing of a record is short, the
\* AEAD rejects the record, or maybeDecompress throws.
UnitFails ==
    \/ op = "encryptBlob" /\ pc = "ReadChunk" /\ pc' \notin {"ReadChunk", "Compress"}
    \/ /\ op = "decryptToBlob"
       /\ pc = "ReadRecord"
       /\ pc' # pc
       /\ \/ dec.offset + 4 > Len(dec.payloadU8)
          \/ dec.offset + 4 + IV_BYTES + readU32be(dec.payloadU8, dec.offset)
                > Len(dec.payloadU8)
    \/ /\ op = "decryptToBlob"
       /\ pc = "Decrypt"
       /\ pc' # pc
       /\ ~\E r \in sealed : r.key = args.key /\ r.iv = dec.iv /\ r.ct = dec.ct
                              /\ r.aad = dec.aad
    \/ /\ op = "decryptToBlob"
       /\ pc = "Decompress"
       /\ pc' # pc
       /\ dec.compressed
       /\ \/ getCompressionBinding = "null"
          \/ getCompressionBinding = "gzip" /\ ~GunzipOk(dec.pt)

\* C12: atomic failure.  When a unit fails in encryptBlob or decryptToBlob
\* the call rejects in that step: no later unit is processed, no further
\* progress report is emitted, no container is written and none of the units
\* already processed is returned; and every call that ends in an error
\* returns neither text nor bytes, whatever its progress reports showed.
C12_AtomicFailure ==
    [][ /\ UnitFails
           => /\ op' = "idle"
              /\ pc' = "done"
              /\ res'.status = "error"
              /\ reports' = reports
              /\ wire' = wire
              /\ sealed' = sealed
        /\ (op # "idle" /\ op' = "idle" /\ res'.status = "error")
           => /\ res'.text = <<>>
              /\ res'.bytes = <<>>
              /\ enc' = NoEnc
              /\ dec' = NoDec
              /\ reports' = reports
        /\ (op = "idle" /\ op' = "idle") => reports' \in {reports, <<>>}
                                             \/ args' # args
      ]_vars

\* C12 happens: a chunked decryptToBlob decrypted and reported its first
\* record, then failed on the authentication of the second one.
C12_Witness ==
    /\ args.fn = "decryptToBlob"
    /\ op = "idle"
    /\ res = Failed("AuthenticationFailed")
    /\ decryptCalls = 2
    /\ Len(reports) = 2
    /\ made.altered = "payload"

\* ------------------------------------------------------------------------
\* Compression backends: calls under every binding, with the override set
\* and cleared between them
\* ------------------------------------------------------------------------
NextCompress ==
    \/ \E b \in Bindings : op = "idle" /\ setCompressionBindingOverride(b)
    \/ op = "idle" /\ clearCompressionBindingOverride
    \/ \E s \in Strings, c \in BOOLEAN :
          sealed = {} /\ encryptString(s, 1, c, IvOf(0))
    \/ \E b \in TamperBuffers, c \in BOOLEAN :
          sealed = {} /\ encryptBlobSingle(b, 1, c, 1, <<>>, "none", IvOf(0))
    \/ \E b \in TamperBuffers, c \in BOOLEAN, n \in ChunkSizes :
          sealed = {} /\ encryptBlobBegin(b, 1, c, n, <<>>, "none")
    \/ EncryptBlobSteps
    \/ made.by = "encryptString" /\ decryptToString(1)
    \/ made.by = "encryptBlob" /\ decryptToBlobBegin(1, "none", "uint8array")
    \/ DecryptBlobSteps

SpecCompress == Init /\ [][NextCompress]_vars

\* An encryption asked to compress has just ended, with no binding to be had.
EncryptedWithoutBackend ==
    /\ op = "idle"
    /\ args.fn \in {"encryptString", "encryptBlob"}
    /\ args.compress
    /\ args.binding = "null"
\* A decryption of the untouched container of such an encryption has ended,
\* again with no binding to be had.
DecryptedWithoutBackend ==
    /\ op = "idle"
    /\ args.fn \in {"decryptToString", "decryptToBlob"}
    /\ args.binding = "null"
    /\ made.altered = "none"
    /\ made.call.compress
    /\ made.call.binding = "null"
\* The input of the encryption as bytes.
PlainBytes == IF made.by = "encryptString" THEN textEncode(made.plain) ELSE made.plain

\* What the container records and holds after an encryption without backend:
\* compressed = false in the header and in the metadata, and the input itself,
\* uncompressed, under the seal.
DegradationRecorded ==
    EncryptedWithoutBackend =>
        /\ res.status = "ok"
        /\ res.text = wire
        /\ LET c == unpackContainer(wire) IN
              /\ c.err = "none"
              /\ ~c.compressed
              /\ Has(c.meta, "compressed") /\ c.meta["compressed"] = JBool(FALSE)
              /\ IF c.isChunked
                 THEN LET recs == PayloadRecords(c.payloadU8, 0) IN
                      \A j \in 1..Len(recs) :
                         \A r \in SealedAs(recs[j].iv, recs[j].ct) :
                            r.pt = SubSeq(PlainBytes,
                                          WindowStart(j - 1, made.call.chunkSize) + 1,
                                          WindowEnd(j - 1, made.call.chunkSize,
                                                    Len(PlainBytes)))
                 ELSE \A r \in sealed : r.ct = c.payloadU8 /\ r.pt = PlainBytes

\* C13: graceful degradation on encrypt.  With compress = true and no
\* compression backend, encryptString and encryptBlob succeed, the payload is
\* encrypted uncompressed, the container records compressed = false in the
\* header flag and in meta.compressed, and it decrypts to the original input
\* where there is no backend either.
C13_GracefulDegradation ==
    /\ DegradationRecorded
    /\ DecryptedWithoutBackend
          => /\ res.status = "ok"
             /\ IF made.by = "encryptString" THEN res.text = made.plain
                                             ELSE res.bytes = made.plain

\* The same, but for a string that starts with U+FEFF, which comes back
\* without it.
C13_DegradationButByteOrderMark ==
    /\ DegradationRecorded
    /\ DecryptedWithoutBackend
          => /\ res.status = "ok"
             /\ IF made.by = "encryptString"
                THEN res.text = IF made.plain # <<>> /\ made.plain[1] = 65279
                                THEN Tail(made.plain) ELSE made.plain
                ELSE res.bytes = made.plain

\* The container at hand says compressed, in the header flag and in the
\* metadata that mirrors it.
ClaimsCompressed ==
    LET c == unpackContainer(wire) IN
    c.err = "none" /\ c.compressed /\ Truthy(c.meta, "compressed")
\* A decryption of the container as the encryption left it has ended, with
\* no binding to be had.
DecryptEndedWithoutBackend ==
    /\ op = "idle"
    /\ args.fn \in {"decryptToString", "decryptToBlob"}
    /\ args.binding = "null"
    /\ made.altered = "none"
\* Byte arrays to decompress: none, no gzip frame, the gzip frame of <<7>>.
CompressedSamples == {<<>>, <<7>>, Gzip(<<7>>)}

OwnBinding == IF runtime \in {"browser", "node"} THEN "gzip" ELSE "null"
\* The step is a call that sets or clears the override.
OverrideCall ==
    \/ \E b \in Bindings : setCompressionBindingOverride(b)
    \/ clearCompressionBindingOverride
\* The step is a call of encryptString, ...
EncryptStringCall == op = "idle" /\ args'.fn = "encryptString"
\* ... or compresses a chunk of encryptBlob.
CompressChunkStep == op = "encryptBlob" /\ pc = "Compress" /\ pc' = "Encrypt"

\* C15: compression binding override.  getCompressionBinding depends only on
\* the last override call: after set(b) it is b, and maybeCompress(x, true)
\* gives b.compress(x) with compressed = true; after set(undefined) it is
\* undefined, backend or not, and maybeCompress(x, true) gives x with
\* compressed = false; after clear it is the environment's own binding; no
\* other operation changes it, and an encryption compresses with it.
\* maybeCompress(x, false) always gives x with compressed = false.
C15_OverrideBinding ==
    [][ /\ \A b \in Bindings :
             setCompressionBindingOverride(b)
             => /\ getCompressionBinding' = b
                /\ \A x \in CompressedSamples :
                      maybeCompress(x, TRUE, getCompressionBinding') =
                         IF b = "null" THEN [compressed |-> FALSE, data |-> x]
                         ELSE [compressed |-> TRUE, data |-> BindingCompress(b, x)]
        /\ clearCompressionBindingOverride => getCompressionBinding' = OwnBinding
        /\ ~OverrideCall => getCompressionBinding' = getCompressionBinding
        /\ EncryptStringCall
             => /\ args'.binding = getCompressionBinding
                /\ \A r \in sealed' \ sealed :
                      r.pt = maybeCompress(textEncode(made'.plain), args'.compress,
                                           getCompressionBinding).data
        /\ CompressChunkStep
             => /\ args'.binding = getCompressionBinding
                /\ enc'.data = maybeCompress(enc.u8, args.compress,
                                             getCompressionBinding).data
        /\ \A x \in CompressedSamples \cup {enc.u8} :
             maybeCompress(x, FALSE, getCompressionBinding) =
                [compressed |-> FALSE, data |-> x]
      ]_vars

\* C15 happens: in Node.js, after an override of undefined, encryptString
\* asked to compress has written an uncompressed container.
C15_Witness ==
    /\ runtime = "node"
    /\ hasOverride
    /\ overrideBinding = "null"
    /\ args.fn = "encryptString"
    /\ args.compress
    /\ args.binding = "null"
    /\ ~ClaimsCompressed

\* ------------------------------------------------------------------------
\* The random generator: several encryptions, each with the IV that
\* getRandomValues happens to return
\* ------------------------------------------------------------------------
\* What getRandomValues may write: the generator is free to return the same
\* bytes again.
RandomFills == {IvOf(0), IvOf(1)}
\* Calls start while fewer encryptions than this have been made.
MaxEncryptions == 2
\* A buffer for the chunked branch.
ChunkedBuffer == Buffer(subarray(Pattern, 0, CHUNK_COMPRESS_THRESHOLD + 1))

NextIv ==
    \/ \E k \in Keys, f \in RandomFills :
          Cardinality(sealed) < MaxEncryptions /\ encryptString(<<97>>, k, FALSE, randomIv(f))
    \/ \E k \in Keys, f \in RandomFills :
          /\ Cardinality(sealed) < MaxEncryptions
          /\ encryptBlobSingle(Buffer(<<7>>), k, FALSE, 1, <<>>, "none", randomIv(f))
    \/ \E k \in Keys :
          /\ Cardinality(sealed) < MaxEncryptions
          /\ encryptBlobBegin(ChunkedBuffer, k, FALSE, MaxChunkSize, <<>>, "none")
    \/ encCheckCancel
    \/ encReadChunk
    \/ encCompress
    \/ \E f \in RandomFills : encEncrypt(randomIv(f))
    \/ encAppendRecord
    \/ encReportProgress
    \/ encAssemble

SpecIv == InitIn({"node"}) /\ [][NextIv]_vars

\* Every encryption has a draw of its own: the n-th encryption used the n-th
\* value the generator returned, twelve bytes, and nothing else was drawn.
OwnDrawPerEncryption ==
    /\ Len(drawn) = Cardinality(sealed)
    /\ \A r \in sealed :
          /\ r.n + 1 \in 1..Len(drawn)
          /\ r.iv = drawn[r.n + 1]
          /\ Len(r.iv) = IV_BYTES
    /\ \A r1, r2 \in sealed : r1.n = r2.n => r1 = r2

IvProps == {<<>>, <<Prop(K_iv, JStr(<<>>))>>, <<Prop(K_iv, JStr(toBase64Url(IvOf(0))))>>}
handMeta(type, compressed, ivProp) ==
    << Prop(K_type, JStr(type)), Prop(K_alg, JStr(ALG)) >>
    \o (IF type = BLOB
        THEN << Prop(K_single, JBool(TRUE)), Prop(K_mime, JStr(DEFAULT_MIME)) >>
        ELSE <<>>)
    \o << Prop(K_compressed, JBool(compressed)) >>
    \o ivProp

NextNoIv ==
    \/ \E type \in {TEXT, BLOB}, c \in BOOLEAN, ivProp \in IvProps, n \in {0, 4, TAG_BYTES} :
          made.by = "none" /\ packByHand(c, FALSE, handMeta(type, c, ivProp), Zeros(n))
    \/ args.fn = "none" /\ decryptToString(1)
    \/ \E s \in {"none", "aborted"}, o \in Outputs :
          args.fn = "none" /\ decryptToBlobBegin(1, s, o)

SpecNoIv == InitIn({"node", "bare"}) /\ [][NextNoIv]_vars

\* The container at hand is well-formed, not chunked, and its metadata has
\* no iv or an empty one.
ContainerWithoutIv ==
    LET c == unpackContainer(wire) IN
    /\ c.err = "none"
    /\ ~c.isChunked
    /\ ("iv" \notin DOMAIN c.meta \/ c.meta["iv"] = JStr(<<>>))
\* Its metadata says single = true.
ContainerSingle ==
    LET c == unpackContainer(wire) IN
    c.err = "none" /\ "single" \in DOMAIN c.meta /\ c.meta["single"] = JBool(TRUE)

\* C17 as stated: missing IV.  decryptToString on a non-chunked text
\* container, and decryptToBlob on a non-chunked blob container with
\* single = true, whose metadata has no iv (absent or empty) fail with
\* MissingIv, and no AEAD decryption is attempted.
C17_MissingIv ==
    /\ (Ended("decryptToString") /\ ContainerOfType(TEXT) /\ ContainerWithoutIv)
          => res = Failed("MissingIv") /\ decryptCalls = 0
    /\ (Ended("decryptToBlob") /\ ContainerOfType(BLOB) /\ ContainerSingle
                                /\ ContainerWithoutIv)
          => res = Failed("MissingIv") /\ decryptCalls = 0

\* C17, with what decryptToBlob checks first: as above for decryptToString;
\* decryptToBlob fails with MissingIv when the output asked for is to be had
\* and the signal is not aborted, with UnsupportedOutputFormat when it is not
\* to be had, and with Aborted otherwise; in every case no AEAD decryption is
\* attempted.
C17_MissingIvAfterOutputAndSignal ==
    /\ (Ended("decryptToString") /\ ContainerOfType(TEXT) /\ ContainerWithoutIv)
          => res = Failed("MissingIv") /\ decryptCalls = 0
    /\ (Ended("decryptToBlob") /\ ContainerOfType(BLOB) /\ ContainerSingle
                                /\ ContainerWithoutIv)
          => /\ res = Failed(IF args.output = "buffer" /\ runtime # "node"
                             THEN "UnsupportedOutputFormat"
                             ELSE IF args.signal = "aborted" THEN "Aborted"
                             ELSE "MissingIv")
             /\ decryptCalls = 0

\* C17 happens: decryptToBlob has rejected a single-unit blob container whose
\* iv is the empty string, after its first progress report.
C17_Witness ==
    /\ Ended("decryptToBlob")
    /\ ContainerOfType(BLOB)
    /\ ContainerSingle
    /\ ContainerWithoutIv
    /\ "iv" \in DOMAIN unpackContainer(wire).meta
    /\ res = Failed("MissingIv")
    /\ Len(reports) = 1
    /\ decryptCalls = 0

\* ------------------------------------------------------------------------
\* The Base64URL codec on its own: bytes encoded, the padding put back or
\* not, the text decoded, on the btoa / atob path and on the Buffer path
\* ------------------------------------------------------------------------
\* typeof btoa === "function" (and atob with it): in a browser; the Node.js
\* of this model has Buffer only.
hasBtoa == runtime = "browser"

\* toBase64Url(u8), called directly.
encodeBase64Url(u8) ==
    /\ op = "idle"
    /\ made.by = "none"
    /\ wire' = IF hasBtoa THEN toBase64Url(u8) ELSE toBase64UrlByBuffer(u8)
    /\ made' = Made("toBase64Url", NoArgs, u8, <<>>, FALSE, "none")
    /\ UNCHANGED <<other, envVars, sealed, drawn, callVars, res, unpacked, decryptCalls>>

\* The text at hand with '=' up to a multiple of four characters.
WithPadding(str) == str \o subarray(<<61, 61, 61>>, (Len(str) + 3) % 4, 3)

\* A caller puts the padding back that toBase64Url stripped.
restorePadding ==
    /\ op = "idle"
    /\ made.by = "toBase64Url"
    /\ made.altered = "none"
    /\ args.fn = "none"
    /\ Len(wire) % 4 # 0
    /\ wire' = WithPadding(wire)
    /\ made' = [made EXCEPT !.altered = "padded"]
    /\ UNCHANGED <<other, envVars, sealed, drawn, callVars, res, unpacked, decryptCalls>>

\* fromBase64Url(str) of the text at hand, called directly.
decodeBase64Url ==
    \E d \in {IF hasBtoa THEN fromBase64Url(wire) ELSE fromBase64UrlByBuffer(wire)} :
    /\ op = "idle"
    /\ made.by = "toBase64Url"
    /\ args.fn = "none"
    /\ args' = [NoArgs EXCEPT !.fn = "fromBase64Url"]
    /\ res' = IF d.ok THEN Outcome("ok", "none", <<>>, d.u8, <<>>)
                      ELSE Failed("InvalidCharacter")
    /\ UNCHANGED <<other, envVars, sealed, drawn, wire, made, op, pc, enc, dec, aborted,
                   reports, unpacked, decryptCalls>>

\* Byte sequences of every length up to MaxCodecLen, over bytes whose
\* encodings use 'A', '+' and '/' (written '-' and '_'), among others.
MaxCodecLen == 4
CodecBytes == {0, 251, 255}
CodecInputs == SeqsUpTo(CodecBytes, MaxCodecLen)

NextCodec ==
    \/ \E u8 \in CodecInputs : encodeBase64Url(u8)
    \/ restorePadding
    \/ decodeBase64Url

SpecCodec == InitIn({"browser", "node"}) /\ [][NextCodec]_vars

\* A character of [A-Za-z0-9_-].
IsUrlChar(c) ==
    \/ c >= 65 /\ c <= 90
    \/ c >= 97 /\ c <= 122
    \/ c >= 48 /\ c <= 57
    \/ c = 45
    \/ c = 95

\* C18: Base64URL codec.  For every byte sequence b, of a length of 0, 1 or 2
\* modulo 3, toBase64Url(b) has only characters of [A-Za-z0-9_-] and no '=',
\* fromBase64Url(toBase64Url(b)) = b, fromBase64Url of the same text with its
\* '=' padding put back returns the same bytes, and the btoa / atob path and
\* the Buffer path give identical results.
C18_Base64UrlCodec ==
    made.by = "toBase64Url" =>
        LET b == made.plain
            t == toBase64Url(b)
        IN  /\ made.altered = "none" => wire = t
            /\ made.altered = "padded" => wire = WithPadding(t) /\ wire # t
            /\ \A j \in 1..Len(t) : IsUrlChar(t[j])
            /\ toBase64UrlByBuffer(b) = t
            /\ fromBase64Url(t) = [ok |-> TRUE, u8 |-> b]
            /\ fromBase64UrlByBuffer(t) = [ok |-> TRUE, u8 |-> b]
            /\ fromBase64Url(WithPadding(t)) = [ok |-> TRUE, u8 |-> b]
            /\ fromBase64UrlByBuffer(WithPadding(t)) = [ok |-> TRUE, u8 |-> b]
            /\ args.fn = "fromBase64Url" => res = Outcome("ok", "none", <<>>, b, <<>>)

\* C18 happens: on the Buffer path, four bytes whose text uses '-' and '_'
\* have come back from the text with its two '=' put back.
C18_Witness ==
    /\ made.by = "toBase64Url"
    /\ made.altered = "padded"
    /\ ~hasBtoa
    /\ Len(made.plain) = 4
    /\ Len(wire) = 8
    /\ \E j \in 1..Len(wire) : wire[j] = 45
    /\ \E j \in 1..Len(wire) : wire[j] = 95
    /\ args.fn = "fromBase64Url"
    /\ res.bytes = made.plain

\* ------------------------------------------------------------------------
\* Chunk framing: chunked containers cut short, hand-built payloads of
\* zeros, and flipped length prefixes, read by decryptToBlob
\* ------------------------------------------------------------------------
NextFraming ==
    \/ \E n \in ChunkSizes :
          sealed = {} /\ made.by = "none"
                      /\ encryptBlobBegin(ChunkedBuffer, 1, FALSE, n, <<>>, "none")
    \/ EncryptBlobSteps
    \/ \E n \in 0..(2 * (4 + IV_BYTES)) :
          made.by = "none" /\ args.fn = "none"
                           /\ packByHand(FALSE, TRUE, brokenMeta(BLOB), Zeros(n))
    \/ /\ res.status = "ok"
       /\ args.fn = "encryptBlob"
       /\ \E n \in 1..Len(wirePayload) : truncate(n)
    \/ /\ res.status = "ok"
       /\ args.fn = "encryptBlob"
       /\ \E pos \in 0..3, bit \in Bits : flipPayloadBit(pos, bit)
    \/ made.by # "none" /\ args.fn # "decryptToBlob"
                        /\ decryptToBlobBegin(1, "none", "uint8array")
    \/ DecryptBlobSteps

\* The loop is a sequence of awaited steps, each of which settles.
SpecFraming == InitIn({"node"}) /\ [][NextFraming]_vars /\ WF_vars(DecryptBlobSteps)

\* C19: chunk framing on decrypt.  The chunk parser of decryptToBlob starts
\* at offset 0; at each record it checks that 4 length bytes remain, reads the
\* big-endian length L, checks that 12 + L further bytes remain, slices the IV
\* and the ciphertext and advances the offset by exactly 4 + 12 + L; it
\* returns successfully only with the offset exactly on the end of the
\* payload; too few remaining bytes, or leftover bytes that are no complete
\* record, give CorruptedChunkContainer; the offset never decreases and
\* strictly increases with every record, and the loop terminates.
C19_ChunkFraming ==
    /\ [][ /\ (op = "idle" /\ op' = "decryptToBlob") => dec'.offset = 0
           /\ (op = "decryptToBlob" /\ pc = "ReadRecord" /\ pc' # pc)
              => LET len == Len(dec.payloadU8)
                     off == dec.offset
                     \* a length of 2^30 or more is longer than any payload
                     huge == dec.payloadU8[off + 1] >= 64
                     L   == dec.payloadU8[off + 1] * 16777216
                            + dec.payloadU8[off + 2] * 65536
                            + dec.payloadU8[off + 3] * 256 + dec.payloadU8[off + 4]
                 IN  IF len - off < 4
                     THEN op' = "idle" /\ res' = Failed("CorruptedChunkContainer")
                     ELSE IF huge \/ len - off - 4 < 12 + L
                     THEN op' = "idle" /\ res' = Failed("CorruptedChunkContainer")
                     ELSE /\ op' = "decryptToBlob"
                          /\ dec'.offset = off + 4 + 12 + L
                          /\ dec'.offset > off
                          /\ dec'.offset <= len
                          /\ dec'.iv = SubSeq(dec.payloadU8, off + 5, off + 16)
                          /\ dec'.ct = SubSeq(dec.payloadU8, off + 17, off + 16 + L)
           /\ (op = "decryptToBlob" /\ ~(pc = "ReadRecord" /\ pc' # pc))
              => (op' = "decryptToBlob" => dec'.offset = dec.offset)
           /\ (op = "decryptToBlob" /\ op' = "idle" /\ res'.status = "ok")
              => dec.offset = Len(dec.payloadU8)
         ]_vars
    /\ (op = "decryptToBlob") ~> (op = "idle")

\* C19 happens: decryptToBlob read and decrypted the first record of a
\* container cut short, and rejected the bytes left over after it.
C19_Witness ==
    /\ Ended("decryptToBlob")
    /\ made.by = "encryptBlob"
    /\ made.altered = "truncated"
    /\ decryptCalls = 1
    /\ Len(reports) = 2
    /\ res = Failed("CorruptedChunkContainer")

\* ------------------------------------------------------------------------
\* The override set and cleared while encryptBlob is in its chunk loop
\* ------------------------------------------------------------------------
\* A binding that compresses, and none.
ToggleBindings == {"gzip", "null"}

NextToggle ==
    \/ \E c \in BOOLEAN, n \in ChunkSizes :
          sealed = {} /\ encryptBlobBegin(ChunkedBuffer, 1, c, n, <<>>, "none")
    \/ EncryptBlobSteps
    \/ \E b \in ToggleBindings : made.by = "none" /\ setCompressionBindingOverride(b)
    \/ made.by = "none" /\ hasOverride /\ clearCompressionBindingOverride
    \/ args.fn = "encryptBlob" /\ res.status = "ok"
                               /\ decryptToBlobBegin(1, "none", "uint8array")
    \/ DecryptBlobSteps

SpecToggle == InitIn({"node", "bare"}) /\ [][NextToggle]_vars

\* Chunk j (from 1) of the plaintext of the container at hand.
ChunkOfPlain(j) ==
    SubSeq(made.plain, WindowStart(j - 1, made.call.chunkSize) + 1,
           WindowEnd(j - 1, made.call.chunkSize, Len(made.plain)))

\* C20: uniform compression in a chunked container.  In every chunked
\* container encryptBlob returns, either every chunk was compressed and the
\* compressed flag (header bit0 and meta.compressed) is true, or no chunk was
\* compressed and the flag is false, for every compress option and every
\* backend availability, also when the override is set or cleared between
\* the chunks of the call.
C20_UniformCompression ==
    (EncryptBlobReturned /\ made.chunked) =>
        LET c    == unpackContainer(wire)
            recs == PayloadRecords(c.payloadU8, 0)
            flag == c.compressed
        IN  /\ c.err = "none"
            /\ Has(c.meta, "compressed") /\ c.meta["compressed"] = JBool(flag)
            /\ \A j \in 1..Len(recs) :
                  \A r \in SealedAs(recs[j].iv, recs[j].ct) :
                     r.pt = IF flag THEN Gzip(ChunkOfPlain(j)) ELSE ChunkOfPlain(j)

\* ------------------------------------------------------------------------
\* Metadata rewritten by a caller between encryption and decryption
\* ------------------------------------------------------------------------
\* The properties of a metadata text in the order they are written in, as
\* JSON.parse keeps them.
RECURSIVE ParseProps(_, _)
ParseProps(t, p) ==
    LET k == ParseString(t, p) IN
    IF ~k.ok \/ k.next > Len(t) \/ t[k.next] # 58 THEN <<>>
    ELSE LET v == ParseValue(t, k.next + 1) IN
         IF ~v.ok \/ v.next > Len(t) THEN <<>>
         ELSE <<Prop(k.v.s, v.v)>>
              \o (IF t[v.next] = 44 THEN ParseProps(t, v.next + 1) ELSE <<>>)

\* meta[k] = v: a property the object has keeps its place, a new one goes last.
assign(props, k, v) ==
    IF \E i \in 1..Len(props) : props[i].k = k
    THEN [i \in 1..Len(props) |-> IF props[i].k = k THEN Prop(k, v) ELSE props[i]]
    ELSE Append(props, Prop(k, v))

RECURSIVE assignAll(_, _)
assignAll(props, changes) ==
    IF changes = <<>> THEN props
    ELSE assignAll(assign(props, changes[1].k, changes[1].v), Tail(changes))

\* delete meta[k]
delete(props, k) == SelectSeq(props, LAMBDA q : q.k # k)

\* A caller parses the metadata block of the container at hand, assigns the
\* properties of changes (or deletes property del, if del is not empty),
\* and writes the block back with its length; the header bytes before the
\* length and the payload stay as they are.
rewriteMeta(changes, del, how) ==
    /\ op = "idle"
    /\ made.by \in {"encryptString", "encryptBlob"}
    /\ made.altered = "none"
    /\ \E bin \in {wireBytes} :
       \E metaLen \in {readU32be(bin, 7)} :
       \E props \in {ParseProps(textDecode(subarray(bin, 11, 11 + metaLen)), 2)} :
       \E metaU8 \in {textEncode(JSONstringify(
                          assignAll(IF del = <<>> THEN props ELSE delete(props, del),
                                    changes)))} :
          /\ metaU8 # subarray(bin, 11, 11 + metaLen)
          /\ wire' = toBase64Url(subarray(bin, 0, 7) \o u32be(Len(metaU8)) \o metaU8
                                 \o subarray(bin, 11 + metaLen, Len(bin)))
    /\ made' = [made EXCEPT !.altered = how]
    /\ UNCHANGED <<other, envVars, sealed, drawn, callVars, res, unpacked, decryptCalls>>

\* MIME strings a caller writes into meta.mime.
OtherMimes == {<<97, 47, 98>>, <<99, 47, 100>>, DEFAULT_MIME}

\* Containers of the three kinds; then the kind or the MIME type in the
\* metadata is rewritten, and the container goes to the decryptor of the
\* kind the metadata now names.
NextAad ==
    \/ \E s \in Strings, c \in BOOLEAN :
          sealed = {} /\ made.by = "none" /\ encryptString(s, 1, c, IvOf(0))
    \/ \E b \in TamperBuffers, c \in BOOLEAN, m \in MimeTypes :
          /\ sealed = {}
          /\ made.by = "none"
          /\ encryptBlobSingle(b, 1, c, MaxChunkSize, m, "none", IvOf(0))
    \/ \E b \in TamperBuffers, c \in BOOLEAN, m \in MimeTypes :
          /\ sealed = {}
          /\ made.by = "none"
          /\ encryptBlobBegin(b, 1, c, MaxChunkSize, m, "none")
    \/ EncryptBlobSteps
    \/ /\ made.by = "encryptBlob"
       /\ ~made.chunked
       /\ args.fn = "encryptBlob"
       /\ res.status = "ok"
       /\ rewriteMeta(<<Prop(K_type, JStr(TEXT))>>, <<>>, "kind")
    \/ /\ made.by = "encryptString"
       /\ args.fn = "encryptString"
       /\ rewriteMeta(<<Prop(K_type, JStr(BLOB)), Prop(K_single, JBool(TRUE))>>, <<>>,
                      "kind")
    \/ /\ made.by = "encryptBlob"
       /\ args.fn = "encryptBlob"
       /\ res.status = "ok"
       /\ \E m \in OtherMimes : rewriteMeta(<<Prop(K_mime, JStr(m))>>, <<>>, "mime")
    \/ /\ made.altered = "kind"
       /\ made.by = "encryptBlob"
       /\ args.fn = "encryptBlob"
       /\ decryptToString(1)
    \/ /\ made.by = "encryptString" => made.altered = "kind"
       /\ made.by = "encryptBlob" => made.altered # "kind"
       /\ args.fn \in {"encryptString", "encryptBlob"}
       /\ res.status = "ok"
       /\ \E s \in {"none", "aborted"}, o \in Outputs : decryptToBlobBegin(1, s, o)
    \/ DecryptBlobSteps

SpecAad == InitIn({"node", "bare"}) /\ [][NextAad]_vars

\* A container of encryptString or encryptBlob whose meta.type (with
\* single = true for a text container) or whose meta.mime a caller has
\* rewritten was given, with the key of the encryption, to the decryptor of
\* the kind its metadata names, and the call has ended.
RewrittenKindOrMimeDecrypted ==
    /\ made.altered \in {"kind", "mime"}
    /\ \/ Ended("decryptToString")
       \/ Ended("decryptToBlob")
    /\ args.key = made.call.key

\* C21, as stated: content kind and MIME type are authenticated through the
\* additional data.  A single-shot blob container with meta.type rewritten
\* to text given to decryptToString, a text container with meta.type
\* rewritten to blob and single = true given to decryptToBlob, and a blob
\* container (single-shot or chunked) with meta.mime rewritten to a
\* different MIME string given to decryptToBlob all fail with
\* AuthenticationFailed and return no plaintext.
C21_KindAndMimeAuthenticated ==
    RewrittenKindOrMimeDecrypted => res = Failed("AuthenticationFailed")

\* C21, amended: as above for decryptToString, and for decryptToBlob when
\* the requested output is available and the signal is not aborted at the
\* call; decryptToBlob fails with UnsupportedOutputFormat when output
\* "buffer" is requested where there is no Buffer and with Aborted when the
\* signal is aborted at the call, both before any decryption.  No call
\* returns plaintext, and none gets past its first AEAD decryption.
C21_KindAndMimeAuthenticatedAfterOutputAndSignal ==
    RewrittenKindOrMimeDecrypted =>
        /\ res.status = "error"
        /\ res.text = <<>>
        /\ res.bytes = <<>>
        /\ res.err =
             IF args.fn = "decryptToBlob" /\ args.output = "buffer" /\ ~hasBufferSupport
             THEN "UnsupportedOutputFormat"
             ELSE IF args.fn = "decryptToBlob" /\ args.signal = "aborted"
             THEN "Aborted"
             ELSE "AuthenticationFailed"
        /\ decryptCalls = IF res.err = "AuthenticationFailed" THEN 1 ELSE 0

\* C21 happens: a chunked container made with MIME type a/b had its
\* meta.mime rewritten, and decryptToBlob rejected its first record.
C21_Witness ==
    /\ RewrittenKindOrMimeDecrypted
    /\ made.altered = "mime"
    /\ made.chunked
    /\ made.mime = <<97, 47, 98>>
    /\ unpackContainer(wire).meta["mime"] # JStr(made.mime)
    /\ decryptCalls = 1
    /\ res = Failed("AuthenticationFailed")

\* ------------------------------------------------------------------------
\* meta.size rewritten or removed by a caller
\* ------------------------------------------------------------------------
\* What a caller writes into meta.size: numbers smaller and greater than any
\* input of the model, zero, and a string.
SizeValues == {JNum(0), JNum(1), JNum(1000), JStr(<<55>>)}

NextSize ==
    \/ \E b \in TamperBuffers, c \in BOOLEAN :
          /\ sealed = {}
          /\ made.by = "none"
          /\ encryptBlobSingle(b, 1, c, 1, <<>>, "none", IvOf(0))
    \/ \E b \in TamperBuffers, c \in BOOLEAN :
          /\ sealed = {}
          /\ made.by = "none"
          /\ encryptBlobBegin(b, 1, c, 1, <<>>, "none")
    \/ EncryptBlobSteps
    \/ /\ args.fn = "encryptBlob"
       /\ res.status = "ok"
       /\ \E v \in SizeValues : rewriteMeta(<<Prop(K_size, v)>>, <<>>, "size")
    \/ /\ args.fn = "encryptBlob"
       /\ res.status = "ok"
       /\ rewriteMeta(<<>>, K_size, "size")
    \/ /\ op = "idle"
       /\ made.by = "encryptBlob"
       /\ ~hasOverride
       /\ args.fn # "decryptToBlob"
       /\ setCompressionBindingOverride("null")
    \/ \E k \in Keys, s \in {"none", "aborted"}, o \in Outputs :
          /\ made.by = "encryptBlob"
          /\ args.fn # "decryptToBlob"
          /\ decryptToBlobBegin(k, s, o)
    \/ DecryptBlobSteps

SpecSize == InitIn({"node", "bare"}) /\ [][NextSize]_vars

\* decryptToBlob has ended on a container of encryptBlob in which nothing,
\* or nothing but meta.size, was changed.
SizeCase ==
    /\ Ended("decryptToBlob")
    /\ made.by = "encryptBlob"
    /\ made.altered \in {"none", "size"}

\* How decryptToBlob ends on the container as encryptBlob returned it,
\* written without reference to the container's meta.size.
OutcomeWhateverSize ==
    IF args.output = "buffer" /\ ~hasBufferSupport THEN Failed("UnsupportedOutputFormat")
    ELSE IF args.signal = "aborted" THEN Failed("Aborted")
    ELSE IF args.key # made.call.key THEN Failed("AuthenticationFailed")
    ELSE IF made.call.compress /\ made.call.binding # "null" /\ getCompressionBinding = "null"
    THEN Failed("CompressionUnavailable")
    ELSE toBinaryOutput(made.plain, made.mime, args.output)

\* The number meta.size of the container at hand holds, 0 if it holds none.
SizeWritten ==
    LET meta == unpackContainer(wire).meta IN
    IF "size" \in DOMAIN meta /\ meta["size"].t = "number" THEN meta["size"].n ELSE 0

\* The bytes decrypted when each report of a successful decryptToBlob is made.
BytesDone ==
    LET n == Len(made.plain)
        k == CeilDiv(n, made.call.chunkSize)
    IN  IF made.chunked
        THEN <<0>> \o [j \in 1..k |-> WindowEnd(j - 1, made.call.chunkSize, n)] \o <<n>>
        ELSE <<0, n>>

\* C22, as stated: meta.size is advisory only.  Two containers that differ
\* only in the value or presence of meta.size have the same outcome of
\* decryptToBlob under the same key (the same bytes, or the same error);
\* meta.size never bounds the parsing of the payload and influences only the
\* total and percent values of the progress reports.
C22_SizeAdvisoryOnly ==
    SizeCase =>
        /\ res = OutcomeWhateverSize
        /\ \A i \in 1..Len(reports) : reports[i].total = SizeWritten
        /\ res.status = "ok" =>
              /\ Len(reports) = Len(BytesDone)
              /\ \A i \in 1..Len(reports) : reports[i].processed = BytesDone[i]

\* C22, amended: the outcome is the same whatever meta.size holds, and
\* meta.size shows in the progress reports only: in total and percent, and in
\* processed, which is capped at a total other than zero after each chunk and
\* is that total itself in the last report.
C22_SizeAdvisory ==
    SizeCase =>
        /\ res = OutcomeWhateverSize
        /\ \A i \in 1..Len(reports) : reports[i].total = SizeWritten
        /\ res.status = "ok" =>
              /\ Len(reports) = Len(BytesDone)
              /\ \A i \in 1..Len(reports) :
                    reports[i].processed =
                       IF SizeWritten = 0 THEN BytesDone[i]
                       ELSE IF i = Len(reports) THEN SizeWritten
                       ELSE Min(BytesDone[i], SizeWritten)

\* C22 happens: a chunked container whose meta.size was rewritten to 1000
\* decrypted to the bytes that were encrypted.
C22_Witness ==
    /\ SizeCase
    /\ made.altered = "size"
    /\ made.chunked
    /\ SizeWritten = 1000
    /\ res.status = "ok"
    /\ res.bytes = made.plain
    /\ Len(res.bytes) = CHUNK_COMPRESS_THRESHOLD + 1

\* ------------------------------------------------------------------------
\* Chunked containers that lose their last records
\* ------------------------------------------------------------------------
\* Buffers for the chunked branch, of every length the model has.
LargeBuffers == {Buffer(subarray(Pattern, 0, n)) : n \in (CHUNK_COMPRESS_THRESHOLD + 1)..MaxLen}

NextDrop ==
    \/ \E b \in LargeBuffers, c \in BOOLEAN, n \in ChunkSizes :
          sealed = {} /\ made.by = "none" /\ encryptBlobBegin(b, 1, c, n, <<>>, "none")
    \/ EncryptBlobSteps
    \/ /\ args.fn = "encryptBlob"
       /\ res.status = "ok"
       /\ \E recs \in {PayloadRecords(wirePayload, 0)} :
          \E j \in 1..Len(recs) :
             truncate(Len(wirePayload)
                      - (IF j = Len(recs) THEN 0 ELSE recs[Len(recs) - j].end))
    \/ \E o \in {"blob", "uint8array"} :
          /\ made.altered = "truncated"
          /\ args.fn = "encryptBlob"
          /\ decryptToBlobBegin(1, "none", o)
    \/ DecryptBlobSteps

SpecDrop == InitIn({"node"}) /\ [][NextDrop]_vars

\* decryptToBlob has ended on a chunked container of encryptBlob that lost
\* its last records, called with the key of the encryption.
DroppedRecordsDecrypted ==
    /\ Ended("decryptToBlob")
    /\ made.by = "encryptBlob"
    /\ made.chunked
    /\ made.altered = "truncated"
    /\ args.key = made.call.key

\* C23: truncation at a record boundary is not detected by the decryptor.
\* Given a valid chunked container with n records, removing the last j
\* complete records (1 <= j <= n) from the payload gives a container on
\* which decryptToBlob succeeds and returns the concatenation of the first
\* n - j decrypted chunks; the reconstructed length is not compared with
\* meta.size, which still holds the size of the whole input.
C23_TruncationUndetected ==
    DroppedRecordsDecrypted =>
        LET c    == unpackContainer(wire)
            kept == Len(PayloadRecords(c.payloadU8, 0))
            all  == CeilDiv(Len(made.plain), made.call.chunkSize)
        IN  /\ kept < all
            /\ res.status = "ok"
            /\ res.bytes = SubSeq(made.plain, 1, kept * made.call.chunkSize)
            /\ Len(res.bytes) < Len(made.plain)
            /\ metaTotal(c.meta) = Len(made.plain)
            /\ decryptCalls = kept

\* C23 happens: a container of three records lost the last one, and
\* decryptToBlob returned the first two chunks.
C23_Witness ==
    /\ DroppedRecordsDecrypted
    /\ CeilDiv(Len(made.plain), made.call.chunkSize) = 3
    /\ decryptCalls = 2
    /\ res.status = "ok"
    /\ res.bytes = SubSeq(made.plain, 1, 2 * made.call.chunkSize)

\* ------------------------------------------------------------------------
\* The containers encryption returns
\* ------------------------------------------------------------------------
\* The object a sequence of properties stands for.
ObjectOf(props) ==
    [name \in {KeyName(props[i].k) : i \in 1..Len(props)} |->
        (CHOOSE q \in {props[i] : i \in 1..Len(props)} : KeyName(q.k) = name).v]

\* The encryptions of the capability's log in the order they were made.
SealedInOrder == [i \in 1..Cardinality(sealed) |-> CHOOSE r \in sealed : r.n = i - 1]

\* What the encryption that returned the container at hand handed to
\* packContainer, when the log holds the encryptions of that call only.
PackedCompressed == made.call.compress /\ made.call.binding # "null"
PackedMeta ==
    IF made.by = "encryptString" THEN textMeta(drawn[1], PackedCompressed)
    ELSE IF made.chunked
    THEN chunkedMeta(made.mime, PackedCompressed, made.call.chunkSize, Len(made.plain))
    ELSE singleMeta(made.mime, PackedCompressed, drawn[1], Len(made.plain))
PackedPayload ==
    IF made.chunked
    THEN concatU8([i \in 1..Cardinality(sealed) |->
                      u32be(Len(SealedInOrder[i].ct)) \o SealedInOrder[i].iv
                      \o SealedInOrder[i].ct])
    ELSE SealedInOrder[1].ct

\* The container at hand is as encryptString or encryptBlob returned it.
EncryptionReturned ==
    /\ made.by \in {"encryptString", "encryptBlob"}
    /\ made.altered = "none"
    /\ op = "idle"

\* C24: container well-formedness.  Every container returned by
\* encryptString or encryptBlob has magic WCV1, version 1, algorithm id
\* 0x01, header flag bit0 equal to meta.compressed, header flag bit1 set iff
\* meta.chunked is true, no other flag bits set, meta.iv present iff the
\* container is not chunked, and for blob containers exactly one of
\* meta.single and meta.chunked; unpackContainer of it returns the same
\* compressed, chunked, metadata and payload values that were packed.
C24_WellFormedContainer ==
    EncryptionReturned =>
        LET bin   == fromBase64Url(wire)
            c     == unpackContainer(wire)
            flags == bin.u8[6]
            bit0  == flags % 2 = 1
            bit1  == (flags \div 2) % 2 = 1
        IN  /\ bin.ok
            /\ SubSeq(bin.u8, 1, 4) = <<87, 67, 86, 49>>
            /\ bin.u8[5] = 1
            /\ bin.u8[7] = 1
            /\ flags \in 0..3
            /\ c.err = "none"
            /\ Has(c.meta, "compressed") /\ c.meta["compressed"] = JBool(bit0)
            /\ bit1 <=> (Has(c.meta, "chunked") /\ c.meta["chunked"] = JBool(TRUE))
            /\ bit1 <=> made.chunked
            /\ (Has(c.meta, "iv") /\ c.meta["iv"].t = "string" /\ c.meta["iv"].s # <<>>)
               <=> ~bit1
            /\ IsString(c.meta, "type", BLOB) <=> made.by = "encryptBlob"
            /\ IsString(c.meta, "type", TEXT) <=> made.by = "encryptString"
            /\ made.by = "encryptBlob" =>
                  /\ Has(c.meta, "single") # Has(c.meta, "chunked")
                  /\ Has(c.meta, "single") => c.meta["single"] = JBool(TRUE)
            /\ made.by = "encryptString" =>
                  ~Has(c.meta, "single") /\ ~Has(c.meta, "chunked")
            /\ c.compressed = PackedCompressed
            /\ c.isChunked = made.chunked
            /\ c.meta = ObjectOf(PackedMeta)
            /\ c.payloadU8 = PackedPayload

\* C24 happens: encryptBlob returned a chunked container of compressed
\* chunks, whose flags byte is 3.
C24_Witness ==
    /\ EncryptionReturned
    /\ args.fn = "encryptBlob"
    /\ made.chunked
    /\ PackedCompressed
    /\ wireBytes[6] = 3
    /\ Len(PayloadRecords(unpackContainer(wire).payloadU8, 0)) > 1

\* ------------------------------------------------------------------------
\* The chunk pipeline of encryptBlob, with a signal and a Blob that may fail
\* ------------------------------------------------------------------------
PipelineInputs ==
    LargeBuffers \cup {BlobOf(<<>>, subarray(Pattern, 0, CHUNK_COMPRESS_THRESHOLD + 1))}

NextPipeline ==
    \/ \E b \in PipelineInputs, c \in BOOLEAN, n \in ChunkSizes, s \in Signals :
          sealed = {} /\ made.by = "none" /\ encryptBlobBegin(b, 1, c, n, <<>>, s)
    \/ EncryptBlobSteps
    \/ encReadFails
    \/ abort

SpecPipeline == InitIn({"node"}) /\ [][NextPipeline]_vars

\* The steps of one chunk in the order of the pipeline.
PipelineOrder ==
    <<"CheckCancel", "ReadChunk", "Compress", "Encrypt", "AppendRecord", "ReportProgress">>
StageOf(p) == CHOOSE k \in 1..Len(PipelineOrder) : PipelineOrder[k] = p

\* C25: chunk pipeline ordering.  In the chunked path of encryptBlob each
\* chunk goes through CheckCancel, ReadChunk, Compress (optional), Encrypt,
\* AppendRecord, ReportProgress in that order; the CheckCancel of chunk i+1
\* happens only after the ReportProgress of chunk i, so that no two chunks
\* are in flight at once; the payload is assembled and the container
\* returned only after the report of the last chunk; and Done, Aborted and
\* Failed are terminal and mutually exclusive.
C25_PipelineOrder ==
    [][ /\ (op = "idle" /\ op' = "encryptBlob") =>
              /\ pc' = "CheckCancel"
              /\ enc'.i = 0
              /\ enc'.payloadParts = <<>>
              /\ res' = NoOutcome
        /\ (op = "encryptBlob" /\ op' = "encryptBlob" /\ pc' # pc) =>
              \* within a chunk: the next stage, for the same chunk
              IF pc # "ReportProgress"
              THEN /\ pc \in {PipelineOrder[k] : k \in 1..5}
                   /\ pc' = PipelineOrder[StageOf(pc) + 1]
                   /\ enc'.i = enc.i
                   /\ pc = "Compress" /\ ~args.compress => enc'.data = enc.u8
                   /\ pc = "AppendRecord" =>
                         /\ Len(enc'.payloadParts) = 3 * (enc.i + 1)
                         /\ Len(reports) = 1 + enc.i
                   /\ pc # "AppendRecord" => enc'.payloadParts = enc.payloadParts
                   /\ reports' = reports
              \* after the report: the next chunk, or the assembly after the last
              ELSE /\ enc'.i = enc.i + 1
                   /\ Len(reports') = 1 + enc'.i
                   /\ Len(enc'.payloadParts) = 3 * enc'.i
                   /\ pc' = IF enc'.i < enc.chunkCount THEN "CheckCancel" ELSE "Assemble"
        /\ (op = "encryptBlob" /\ op' = "encryptBlob" /\ pc' = pc) =>
              UNCHANGED <<enc, reports, res>>
        \* the three ends
        /\ (op = "encryptBlob" /\ op' = "idle") =>
              \/ /\ pc = "Assemble"
                 /\ enc.i = enc.chunkCount
                 /\ Len(enc.payloadParts) = 3 * enc.chunkCount
                 /\ Len(reports) = 1 + enc.chunkCount
                 /\ res'.status = "ok"
                 /\ res'.text = wire'
                 /\ made'.by = "encryptBlob"
                 /\ unpackContainer(wire').payloadU8 = concatU8(enc.payloadParts)
              \/ /\ pc = "CheckCancel"
                 /\ aborted
                 /\ res' = Failed("Aborted")
                 /\ UNCHANGED <<wire, made, reports>>
              \/ /\ pc \notin {"CheckCancel", "Assemble"}
                 /\ res'.status = "error"
                 /\ res'.err # "Aborted"
                 /\ UNCHANGED <<wire, made, reports>>
        \* an ended call takes no further step
        /\ (op = "idle" /\ made.by = "none" /\ res.status # "none") =>
              \/ UNCHANGED <<wire, made, sealed, enc, reports, res>>
              \/ op' = "encryptBlob" /\ pc' = "CheckCancel" /\ enc'.i = 0
        /\ (op = "idle" /\ made.by # "none") => UNCHANGED vars
      ]_vars

\* C25 happens: the second chunk of a call has been reported and the third
\* is at its cancellation check, with two records appended.
C25_Witness ==
    /\ op = "encryptBlob"
    /\ pc = "CheckCancel"
    /\ enc.i = 2
    /\ enc.chunkCount > 2
    /\ Len(enc.payloadParts) = 6
    /\ Len(reports) = 3

\* ------------------------------------------------------------------------
\* Progress reports of encryptBlob and decryptToBlob
\* ------------------------------------------------------------------------
\* What a caller writes into meta.size before decryption: a number smaller
\* and one greater than the input, and a negative number.
ReportSizes == {JNum(1), JNum(1000), JNum(0 - 5)}

NextProgress ==
    \/ \E b \in Buffers, c \in BOOLEAN :
          /\ sealed = {}
          /\ made.by = "none"
          /\ encryptBlobSingle(b, 1, c, 1, <<>>, "none", IvOf(0))
    \/ \E b \in Buffers, c \in BOOLEAN, n \in ChunkSizes :
          /\ sealed = {}
          /\ made.by = "none"
          /\ encryptBlobBegin(b, 1, c, n, <<>>, "none")
    \/ EncryptBlobSteps
    \/ /\ args.fn = "encryptBlob"
       /\ res.status = "ok"
       /\ \E v \in ReportSizes : rewriteMeta(<<Prop(K_size, v)>>, <<>>, "size")
    \/ /\ args.fn = "encryptBlob"
       /\ res.status = "ok"
       /\ decryptToBlobBegin(1, "none", "uint8array")
    \/ DecryptBlobSteps

SpecProgress == InitIn({"node"}) /\ [][NextProgress]_vars

\* What the observer of the call in progress, or of the last call, was told.
ReportsSound ==
    /\ \A i \in 1..Len(reports) :
          /\ reports[i].total = reports[1].total
          /\ reports[i].total > 0 => reports[i].processed <= reports[i].total
          /\ reports[i].percent \in 0..100
    /\ \A i, j \in 1..Len(reports) :
          i < j => reports[i].processed <= reports[j].processed

\* The reports of a chunked encryption: one after each completed chunk, with
\* the end offset of that chunk; and the last report of a successful call.
EncryptionReports ==
    /\ (op = "encryptBlob") =>
          /\ Len(reports) = 1 + enc.i
          /\ reports[1].processed = 0
          /\ \A j \in 1..enc.i :
                reports[j + 1].processed = WindowEnd(j - 1, args.chunkSize, enc.size)
    /\ (op = "idle" /\ args.fn = "encryptBlob" /\ res.status = "ok") =>
          /\ reports[Len(reports)].processed = Len(made.plain)
          /\ reports[Len(reports)].total = Len(made.plain)
          /\ made.chunked =>
                /\ Len(reports) = 2 + CeilDiv(Len(made.plain), args.chunkSize)
                /\ \A j \in 1..CeilDiv(Len(made.plain), args.chunkSize) :
                      reports[j + 1].processed
                         = WindowEnd(j - 1, args.chunkSize, Len(made.plain))

\* C26: progress reports.  When an observer is given, every report of one
\* encryptBlob or decryptToBlob call carries the same total, the processed
\* values are non-decreasing, processed never exceeds total when total > 0,
\* and percent is an integer in 0..100; in chunked encryption there is one
\* report after each completed chunk whose processed value is that chunk's
\* end offset, and the last report of a successful encryptBlob has
\* processed = total = input size.
C26_ProgressReports == ReportsSound /\ EncryptionReports

\* The same, leaving out the decryptToBlob calls on a container whose
\* meta.size is negative.
C26_ProgressButNegativeSize ==
    /\ EncryptionReports
    /\ \/ (op = "decryptToBlob" \/ args.fn = "decryptToBlob") /\ SizeWritten < 0
       \/ ReportsSound

\* ------------------------------------------------------------------------
\* Two callers whose calls run concurrently with the same key
\* ------------------------------------------------------------------------
\* Both callers use key 1.
\* Strings without a byte order mark.
PlainStrings == {<<97>>, <<8364>>}

NextConcurrent ==
    \/ \E s \in PlainStrings, c \in BOOLEAN :
          made.by = "none" /\ encryptString(s, 1, c, IvOf(Len(drawn)))
    \/ \E c \in BOOLEAN :
          /\ made.by = "none"
          /\ encryptBlobBegin(ChunkedBuffer, 1, c, MaxChunkSize, <<>>, "none")
    \/ encCheckCancel
    \/ encReadChunk
    \/ encCompress
    \/ encEncrypt(IvOf(Len(drawn)))
    \/ encAppendRecord
    \/ encReportProgress
    \/ encAssemble
    \/ /\ args.fn \in {"encryptString", "encryptBlob"}
       /\ res.status = "ok"
       /\ flipPayloadBit(Len(wirePayload) - 1, 0)
    \/ /\ made.by = "encryptString"
       /\ args.fn = "encryptString"
       /\ decryptToString(1)
    \/ /\ made.by = "encryptBlob"
       /\ args.fn = "encryptBlob"
       /\ res.status = "ok"
       /\ decryptToBlobBegin(1, "none", "uint8array")
    \/ DecryptBlobSteps
    \/ (op # "idle" \/ other.op # "idle") /\ switch

SpecConcurrent == InitIn({"node"}) /\ [][NextConcurrent]_vars

\* The call of caller q ended as it ends when it runs alone: a decryption of
\* the caller's own container returns what the caller encrypted, or fails
\* with AuthenticationFailed if the caller flipped a bit of the tag; an
\* encryption returns a container of the caller's own input.
EndsAsAlone(q) ==
    /\ (q.op = "idle" /\ q.args.fn = "decryptToBlob") =>
          q.res = IF q.made.altered = "payload" THEN Failed("AuthenticationFailed")
                  ELSE Outcome("ok", "none", <<>>, q.made.plain, <<>>)
    /\ (q.op = "idle" /\ q.args.fn = "decryptToString") =>
          q.res = IF q.made.altered = "payload" THEN Failed("AuthenticationFailed")
                  ELSE Outcome("ok", "none", q.made.plain, <<>>, <<>>)
    /\ (q.op = "idle" /\ q.args.fn = "encryptString") =>
          /\ q.res.status = "ok"
          /\ q.made.by = "encryptString"
          /\ q.made.altered = "none" => q.res.text = q.wire
    /\ (q.op = "idle" /\ q.args.fn = "encryptBlob") =>
          /\ q.res.status = "ok"
          /\ q.made.by = "encryptBlob"
          /\ q.made.plain = q.args.blob.data
          /\ q.made.altered = "none" => q.res.text = q.wire
    \* the locals of a call in progress are those of its own input
    /\ q.op = "encryptBlob" =>
          /\ q.enc.size = Len(q.args.blob.data)
          /\ q.enc.processed = Min(q.enc.i * q.args.chunkSize, q.enc.size)
          /\ Len(q.enc.payloadParts) \in {3 * q.enc.i, 3 * q.enc.i + 3}
          /\ Len(q.reports) = 1 + q.enc.i
    /\ q.op = "decryptToBlob" =>
          /\ q.dec.payloadU8 = unpackContainer(q.wire).payloadU8
          /\ q.dec.processed = Len(concatU8(q.dec.outParts))
          /\ concatU8(q.dec.outParts)
                = SubSeq(q.made.plain, 1, Len(concatU8(q.dec.outParts)))

\* C27: independence of concurrent calls.  Any number of encryptString /
\* decryptToString / encryptBlob / decryptToBlob calls running concurrently
\* with the same key, interleaved at their asynchronous steps, each end with
\* the same outcome as when run alone (the same plaintext or error for
\* decryption; a container that decrypts to that call's own input for
\* encryption); no call reads or writes another call's buffers, payload
\* accumulator, offset or progress counter.  Checked for two callers: a step
\* of one leaves everything of the other as it was.
C27_ConcurrentCalls ==
    /\ [](EndsAsAlone(TheCall) /\ EndsAsAlone(other))
    /\ [][ \/ other' = other
           \/ other' = TheCall /\ TheCall' = other
                               /\ UNCHANGED <<envVars, sealed, drawn>> ]_vars

\* C27 happens: one caller's decryptToBlob returned its plaintext after the
\* other caller's chunked encryptBlob, begun and ended in between its
\* steps, returned a container of its own.
C27_Witness ==
    /\ op = "idle"
    /\ args.fn = "decryptToBlob"
    /\ res = Outcome("ok", "none", <<>>, made.plain, <<>>)
    /\ made.call.compress
    /\ other.op = "idle"
    /\ other.args.fn = "encryptBlob"
    /\ other.made.chunked
    /\ other.res.status = "ok"
    /\ \E r \in sealed : r.n = 0 /\ r.pt = Gzip(subarray(made.plain, 0, MaxChunkSize))
    /\ decryptCalls = 2
    /\ Cardinality(sealed) = 4

\* ------------------------------------------------------------------------
\* Flags byte and metadata block rewritten by a caller
\* ------------------------------------------------------------------------
\* The values a caller writes into the flags byte (bit0 compressed, bit1
\* chunked).
FlagValues == 0..3

NextFlags ==
    \/ \E s \in PlainStrings, c \in BOOLEAN :
          made.by = "none" /\ encryptString(s, 1, c, IvOf(0))
    \/ \E b \in TamperBuffers, c \in BOOLEAN :
          /\ made.by = "none"
          /\ encryptBlobSingle(b, 1, c, 1, <<>>, "none", IvOf(0))
    \/ \E b \in TamperBuffers, c \in BOOLEAN :
          /\ made.by = "none"
          /\ encryptBlobBegin(b, 1, c, 1, <<>>, "none")
    \/ EncryptBlobSteps
    \/ /\ args.fn \in {"encryptString", "encryptBlob"}
       /\ res.status = "ok"
       /\ made.altered = "none"
       /\ \E v \in FlagValues : setHeaderByte(5, v)
    \/ /\ args.fn \in {"encryptString", "encryptBlob"}
       /\ res.status = "ok"
       /\ \E k \in {K_compressed, K_single}, b \in BOOLEAN :
             rewriteMeta(<<Prop(k, JBool(b))>>, <<>>, "meta")
    \/ /\ args.fn \in {"encryptString", "encryptBlob"}
       /\ res.status = "ok"
       /\ \E k \in {K_compressed, K_single} : rewriteMeta(<<>>, k, "meta")
    \/ /\ made.by = "encryptString"
       /\ args.fn = "encryptString"
       /\ decryptToString(1)
    \/ /\ made.by = "encryptBlob"
       /\ args.fn = "encryptBlob"
       /\ res.status = "ok"
       /\ decryptToBlobBegin(1, "none", "uint8array")
    \/ DecryptBlobSteps

SpecFlags == InitIn({"node"}) /\ [][NextFlags]_vars

\* A decryption has ended on a container that differs from the one the
\* encryption returned in the flags byte only, or in the metadata block only.
FlagsOrMetaCase ==
    /\ op = "idle"
    /\ args.fn \in {"decryptToString", "decryptToBlob"}
    /\ made.altered \in {"header", "meta"}

\* C28: header flags and metadata cannot be altered into a wrong result.
\* For every container produced by encryptString or encryptBlob, a container
\* that differs from it only in the flags byte or in the metadata block is
\* never decrypted successfully to something different from the original
\* plaintext: the decryption fails or returns the original plaintext.
C28_FlagsAndMetadataProtected ==
    (FlagsOrMetaCase /\ res.status = "ok") =>
       IF args.fn = "decryptToString" THEN res.text = made.plain
       ELSE res.bytes = made.plain

\* What does hold: a decryption that succeeds on such a container returns
\* either the plaintext or the bytes the compression step sealed.
C28_PlaintextOrCompressedForm ==
    (FlagsOrMetaCase /\ res.status = "ok") =>
       \/ C28_FlagsAndMetadataProtected
       \/ /\ made.call.compress
          /\ args.fn = "decryptToString"
          /\ res.text = textDecode(Gzip(textEncode(made.plain)))
       \/ /\ made.call.compress
          /\ args.fn = "decryptToBlob"
          /\ ~made.chunked
          /\ res.bytes = Gzip(made.plain)
       \/ /\ made.call.compress
          /\ args.fn = "decryptToBlob"
          /\ made.chunked
          /\ res.bytes = concatU8([i \in 1..Len(made.plain) |-> Gzip(<<made.plain[i]>>)])

\* ------------------------------------------------------------------------
\* The chunkSize option over the values the API accepts
\* ------------------------------------------------------------------------
\* chunkSize is a number option without a check (encryptBlob's options):
\* negative, zero, and positive up to more than the input.
ChunkSizeOptions == (0 - MaxChunkSize)..(MaxLen + 1)
\* The iterations of one call the model follows.
MaxIterations == MaxLen + 2

NextChunkSize ==
    \/ \E b \in LargeBuffers, c \in BOOLEAN, n \in ChunkSizeOptions :
          /\ made.by = "none"
          /\ encryptBlobBegin(b, 1, c, n, <<>>, "none")
    \/ enc.i < MaxIterations /\ encCheckCancel
    \/ encReadChunk
    \/ encCompress
    \/ encEncrypt(IvOf(enc.i))
    \/ encAppendRecord
    \/ encReportProgress
    \/ encAssemble
    \/ /\ EncryptBlobReturned
       /\ decryptToBlobBegin(1, "none", "uint8array")
    \/ DecryptBlobSteps

SpecChunkSize == InitIn({"node"}) /\ [][NextChunkSize]_vars
\* A call in progress has a step to take, unless it stands at the head of
\* the loop after the last iteration the model follows.
CallCanStep ==
    /\ op # "idle"
    /\ ~(op = "encryptBlob" /\ pc = "CheckCancel" /\ enc.i >= MaxIterations)
\* A call that has begun keeps taking its steps: each await resolves.  (Weak
\* fairness of the next-state relation, with what enables it written out.)
FairSpecChunkSize ==
    SpecChunkSize /\ ([]<><<TRUE>>_vars \/ []<>~CallCanStep)

\* The input bytes a record of the returned container holds.
RecordPlain(rec) ==
    LET r == CHOOSE r \in SealedAs(rec.iv, rec.ct) : TRUE
    IN  IF PackedCompressed THEN Gunzip(r.pt) ELSE r.pt
\* The records of the returned container hold the input, all of it.
RecordsCoverInput ==
    \E recs \in {PayloadRecords(wirePayload, 0)} :
       concatU8([i \in 1..Len(recs) |-> RecordPlain(recs[i])]) = made.plain

\* Every chunked encryptBlob call ends.
ChunkedEncryptionEnds == (op = "encryptBlob") ~> (op = "idle")
\* An iteration of the loop moves the processed offset forward.
IterationAdvances ==
    [][(op = "encryptBlob" /\ pc = "ReportProgress" /\ pc' # "ReportProgress")
          => enc'.processed > enc.processed]_vars
\* Whenever the chunked path returns, its records cover the input.
ReturnedCoversInput == [](EncryptBlobReturned => RecordsCoverInput)

\* C29: termination of chunked encryption.  For every input larger than the
\* threshold and every value of the chunkSize option (0 and negative numbers
\* included), the chunked path of encryptBlob performs finitely many loop
\* iterations and then returns or rejects; and whenever it returns, the
\* records of the container cover all size input bytes.
C29_ChunkedEncryptionTerminates ==
    /\ ChunkedEncryptionEnds
    /\ ReturnedCoversInput

\* What does hold: with a chunkSize of at least 1 the call ends, after
\* iterations that each move forward, and its records cover the input.
C29_TerminatesForPositiveChunkSize ==
    /\ (op = "encryptBlob" /\ args.chunkSize >= 1) ~> (op = "idle")
    /\ [][(op = "encryptBlob" /\ args.chunkSize >= 1 /\ pc = "ReportProgress"
             /\ pc' # "ReportProgress") => enc'.processed > enc.processed]_vars
    /\ []((EncryptBlobReturned /\ args.chunkSize >= 1) => RecordsCoverInput)

\* ------------------------------------------------------------------------
\* Payload records rearranged by a caller
\* ------------------------------------------------------------------------
\* The payload is replaced by its own records in the order given: record
\* order[1] first, then record order[2], ...; header and metadata stay.
rearrangeRecords(order) ==
    /\ op = "idle"
    /\ made.by = "encryptBlob"
    /\ made.chunked
    /\ made.altered = "none"
    /\ \E bin \in {wireBytes}, start \in {payloadStart} :
       \E recs \in {PayloadRecords(subarray(bin, start, Len(bin)), 0)} :
          /\ Len(recs) >= 2
          /\ \A j \in 1..Len(order) : order[j] \in 1..Len(recs)
          /\ \E payloadU8 \in {concatU8([j \in 1..Len(order) |->
                   recs[order[j]].prefix \o recs[order[j]].iv \o recs[order[j]].ct])} :
                /\ payloadU8 # subarray(bin, start, Len(bin))
                /\ wire' = toBase64Url(subarray(bin, 0, start) \o payloadU8)
    /\ made' = [made EXCEPT !.altered = "records"]
    /\ UNCHANGED <<other, envVars, sealed, drawn, callVars, res, unpacked, decryptCalls>>

\* Orders of up to n + 1 out of n records: permutations, and duplications (for
\* the inputs of at most three chunks that ChunkedBuffer gives).
RecordOrders ==
    LET n == CHUNK_COMPRESS_THRESHOLD + 1
    IN  UNION {[1..k -> 1..n] : k \in 2..(n + 1)}

NextOrder ==
    \/ \E c \in BOOLEAN, n \in ChunkSizes :
          made.by = "none" /\ encryptBlobBegin(ChunkedBuffer, 1, c, n, <<>>, "none")
    \/ EncryptBlobSteps
    \/ /\ args.fn = "encryptBlob"
       /\ res.status = "ok"
       /\ \E order \in RecordOrders : rearrangeRecords(order)
    \/ /\ made.by = "encryptBlob"
       /\ args.fn = "encryptBlob"
       /\ res.status = "ok"
       /\ decryptToBlobBegin(1, "none", "uint8array")
    \/ DecryptBlobSteps

SpecOrder == InitIn({"node"}) /\ [][NextOrder]_vars

\* decryptToBlob has ended on a chunked container whose records were permuted
\* or duplicated, called with the key of the encryption.
RearrangedDecrypted ==
    /\ Ended("decryptToBlob")
    /\ made.altered = "records"
    /\ args.key = made.call.key

\* C30: chunk order and multiplicity are protected.  For a valid chunked
\* container with at least two records, a container obtained by permuting or
\* duplicating its payload records (same header and metadata, same key) is
\* never decrypted successfully by decryptToBlob to bytes different from the
\* original plaintext.
C30_OrderAndMultiplicityProtected ==
    (RearrangedDecrypted /\ res.status = "ok") => res.bytes = made.plain

\* What does hold: every such container decrypts, record by record, to bytes
\* other than the plaintext, or to the plaintext when the rearranged records
\* hold the same bytes in the same places.
C30_RearrangedRecordsDecrypt ==
    RearrangedDecrypted =>
       /\ res.status = "ok"
       /\ decryptCalls = Len(PayloadRecords(wirePayload, 0))
       /\ \A i \in 1..Len(res.bytes) : \E j \in 1..Len(made.plain) : res.bytes[i] = made.plain[j]

====
